---- MODULE Spec2Model ----
(***************************************************************************)
(* A model of the arXiv collection / summarisation pipeline:               *)
(*   src/arxiv/scraper.py     ArxivScraper     (Collect)                   *)
(*   src/arxiv/summarizer.py  ArxivSummarizer  (Summarize)                 *)
(* Text is modelled as a sequence of symbols.  A symbol is one character,  *)
(* or one indivisible literal of the program ("Authors:", "Subjects:",     *)
(* "Title:", "https://arxiv.org", "arxiv_papers_", ".pdf", ...).  "<b>" is *)
(* an opening tag written in a text and never closed.                      *)
(***************************************************************************)
EXTENDS Integers, Sequences, FiniteSets, TLC

VARIABLES
    \* ---- the pipeline (specification Spec)
    clock,        \* index into Clocks: the wall clock, at minute granularity
    papersDir,    \* output_dir of the scraper: file name -> collection artifact
    summaryDir,   \* output_dir of the summarizer: file name -> summary artifact
    last,         \* what the last Collect / Summarize call was given and returned
    runs,         \* number of Collect and Summarize calls made so far
    config,       \* the scheduler's topics file and configuration file
    \* ---- the summary generator alone (specification SpecSummary)
    sumPaper,     \* the paper record handed to the generator
    sumEnv,       \* OPENAI_AVAILABLE, self.openai_api_key, the remote call's outcome
    sumRet,       \* what the generator returned (or that it raised)
    \* ---- the entry extractor alone (specification SpecExtract)
    exIn,         \* html_content, topic and max_papers_per_topic
    exRet,        \* the list _parse_paper_data returned
    \* ---- the artifact name encoding alone (specification SpecName)
    nmIn,         \* topic and creation minute
    nmRet,        \* the name built and what the catalog decodes from it
    \* ---- configuration, command line and scheduler loop (specifications
    \*      SpecConfig, SpecCli, SpecSched)
    cfgFile,      \* arxiv_config.json on disk
    cfgRet,       \* what _load_config returned
    cli,          \* one invocation of the command line: arguments and exit
    sched         \* the scheduler loop: its jobs, its position, its log

pipeVars == <<clock, papersDir, summaryDir, last, runs, config>>
sumVars  == <<sumPaper, sumEnv, sumRet>>
exVars   == <<exIn, exRet>>
nmVars   == <<nmIn, nmRet>>
runVars  == <<cfgFile, cfgRet, cli, sched>>
vars     == <<clock, papersDir, summaryDir, last, runs, config,
              sumPaper, sumEnv, sumRet, exIn, exRet, nmIn, nmRet,
              cfgFile, cfgRet, cli, sched>>

\* Python's None; a one-symbol sequence, so that it compares with any text
None == <<"<None>">>

(***************************************************************************)
(* Strings                                                                 *)
(***************************************************************************)
Max(a, b) == IF a >= b THEN a ELSE b
Min(a, b) == IF a <= b THEN a ELSE b

\* s[i..j] as a sequence; empty when j < i.
Slice(s, i, j) == IF j < i THEN <<>> ELSE SubSeq(s, i, j)

\* s[i:] == needle at position i
MatchesAt(s, i, needle) ==
    /\ i + Len(needle) - 1 <= Len(s)
    /\ \A k \in 1..Len(needle) : s[i + k - 1] = needle[k]

\* Python: needle in s
Contains(s, needle) == \E i \in 1..(Len(s) + 1) : MatchesAt(s, i, needle)

\* Python: s.endswith(suffix)
EndsWith(s, suffix) ==
    /\ Len(suffix) <= Len(s)
    /\ MatchesAt(s, Len(s) - Len(suffix) + 1, suffix)

\* Python: str.lower(), on the letters of the model's alphabet
LowerSym(c) ==
    CASE c = "M" -> "m"
      [] c = "L" -> "l"
      [] c = "A" -> "a"
      [] c = "I" -> "i"
      [] c = "D" -> "d"
      [] c = "T" -> "t"
      [] c = "B" -> "b"
      [] c = "Q" -> "q"
      [] c = "Subjects" -> "subjects"
      [] c = "Subjects:" -> "subjects:"
      [] c = "Authors:" -> "authors:"
      [] OTHER -> c
Lower(s) == [i \in 1..Len(s) |-> LowerSym(s[i])]

\* Python: s.replace(old, new) for a one-symbol old
ReplaceSym(s, old, new) == [i \in 1..Len(s) |-> IF s[i] = old THEN new ELSE s[i]]

\* The symbols of s at the positions K, in order.
IsKept(p) == p[2]
Firsts(ps) == [k \in 1..Len(ps) |-> ps[k][1]]
Keep(s, K) == Firsts(SelectSeq([i \in 1..Len(s) |-> <<s[i], i \in K>>], IsKept))

\* ss[lo] \o ... \o ss[hi]
RECURSIVE Flatten(_, _, _)
Flatten(ss, lo, hi) ==
    IF lo > hi THEN <<>>
    ELSE IF lo = hi THEN ss[lo]
    ELSE Flatten(ss, lo, (lo + hi) \div 2) \o Flatten(ss, (lo + hi) \div 2 + 1, hi)

\* Python: s.replace(label, '') for a one-symbol label
RemoveSym(s, label) == Keep(s, {i \in 1..Len(s) : s[i] # label})

IsSpace(c) == c \in {" ", "\n"}

\* Python: s.strip()
RECURSIVE LStrip(_)
LStrip(s) == IF s # <<>> /\ IsSpace(Head(s)) THEN LStrip(Tail(s)) ELSE s
RECURSIVE RStrip(_)
RStrip(s) ==
    IF s # <<>> /\ IsSpace(s[Len(s)]) THEN RStrip(SubSeq(s, 1, Len(s) - 1)) ELSE s
Strip(s) == RStrip(LStrip(s))

\* Python: s.split(sep), for a non-empty sep: the pieces between the
\* non-overlapping occurrences of sep, found left to right.
RECURSIVE SplitFrom(_, _, _, _)
SplitFrom(s, sep, start, i) ==
    IF i + Len(sep) - 1 > Len(s) THEN <<Slice(s, start, Len(s))>>
    ELSE IF MatchesAt(s, i, sep)
         THEN <<Slice(s, start, i - 1)>>
              \o SplitFrom(s, sep, i + Len(sep), i + Len(sep))
         ELSE SplitFrom(s, sep, start, i + 1)
Split(s, sep) == SplitFrom(s, sep, 1, 1)

\* Python: sep.join(pieces)
RECURSIVE Join(_, _)
Join(pieces, sep) ==
    IF pieces = <<>> THEN <<>>
    ELSE IF Len(pieces) = 1 THEN pieces[1]
    ELSE pieces[1] \o sep \o Join(Tail(pieces), sep)

\* Python: xs[:n]
Take(xs, n) == Slice(xs, 1, Min(n, Len(xs)))

\* All sequences over S of length at most n.
SeqsUpTo(S, n) == UNION {[1..k -> S] : k \in 0..n}

(***************************************************************************)
(* Summary generator: src/arxiv/summarizer.py                              *)
(***************************************************************************)
\* Python: paper.get(key, default)
Get(paper, key, default) == IF key \in DOMAIN paper THEN paper[key] ELSE default

\* A call's result: a returned value, or an exception that left the call.
Returned(v) == [raised |-> FALSE, exc |-> None, value |-> v]
Raised(e)   == [raised |-> TRUE, exc |-> e, value |-> None]

SentenceSep == <<".", " ">>
Period == <<".">>

\* The extractive summary cut after the first sentence instead of the third.
generate_simple_summary_first_only(paper) ==
    LET abstract  == Get(paper, "abstract", <<>>)
        sentences == Split(abstract, SentenceSep)
    IN  Join(Take(sentences, 1), SentenceSep)
            \o (IF ~EndsWith(abstract, Period) THEN Period ELSE <<>>)

\* The extractive summary with a period appended in every case.
generate_simple_summary_always_period(paper) ==
    LET abstract  == Get(paper, "abstract", <<>>)
        sentences == Split(abstract, SentenceSep)
    IN  Join(Take(sentences, 3), SentenceSep) \o Period

\* ArxivSummarizer._generate_simple_summary
generate_simple_summary(paper) ==
    LET abstract  == Get(paper, "abstract", <<>>)
        sentences == Split(abstract, SentenceSep)
    IN  Join(Take(sentences, 3), SentenceSep)
            \o (IF ~EndsWith(abstract, Period) THEN Period ELSE <<>>)

\* The remote call and the reading of its response, the body of the try block
\* of _generate_ai_summary: openai.ChatCompletion.create(...) may raise; the
\* response may hold no choice (IndexError) or no content (AttributeError on
\* None.strip()); otherwise the stripped content is returned.
ai_try_body(outcome) ==
    CASE outcome.kind = "raise"        -> Raised("OpenAIError")
      [] outcome.kind = "no_choices"   -> Raised("IndexError")
      [] outcome.kind = "null_content" -> Raised("AttributeError")
      [] OTHER                         -> Returned(Strip(outcome.content))

\* A handler that catches the client library's errors only.
ai_handler_catches_library_only(exc) == exc \in {"OpenAIError"}

\* The handler of _generate_ai_summary, "except Exception": every exception
\* class the try body can raise derives from Exception.
ai_handler_catches(exc) == exc \in {"OpenAIError", "IndexError", "AttributeError"}

\* Python truthiness of self.openai_api_key (None and '' are falsy)
Truthy(v) == v # None /\ v # <<>>

\* ArxivSummarizer._generate_ai_summary
generate_ai_summary(paper, env) ==
    IF ~env.available \/ ~Truthy(env.key)
    THEN Returned(generate_simple_summary(paper))
    ELSE LET r == ai_try_body(env.outcome)
         IN  IF r.raised /\ ai_handler_catches(r.exc)
             THEN Returned(generate_simple_summary(paper))
             ELSE r

(***************************************************************************)
(* Entry extractor: src/arxiv/scraper.py                                   *)
(*                                                                         *)
(* A listing page is the sequence of its <dt> blocks and the sequence of   *)
(* its <dd> blocks.  An element is the sequence of its text nodes, or      *)
(* NoElement when find() returns None.                                     *)
(***************************************************************************)
NoElement == <<None>>

\* bs4: element.get_text(strip=True): the text nodes, each stripped, the
\* empty ones dropped, joined without a separator.
RECURSIVE get_text_strip(_)
get_text_strip(nodes) ==
    IF nodes = <<>> THEN <<>> ELSE Strip(Head(nodes)) \o get_text_strip(Tail(nodes))

SubjectsNotFound == <<"Subjects", " ", "not", " ", "found">>
TitleNotFound    == <<"Title", " ", "not", " ", "found">>
AuthorsNotFound  == <<"Authors", " ", "not", " ", "found">>
LinkNotFound     == <<"Link", " ", "not", " ", "found">>
AbstractNotFound == <<"Abstract", " ", "not", " ", "found">>
ArxivOrg         == <<"https://arxiv.org">>

\* scraper.py:87-89
subjects_text_of(dd) ==
    IF dd.subjects # NoElement
    THEN RemoveSym(get_text_strip(dd.subjects), "Subjects:")
    ELSE SubjectsNotFound

\* A filter that lets every entry through.
topic_matches_always(topic, subjects_text) == TRUE

\* scraper.py:92   topic.lower() in subjects_text.lower()
topic_matches(topic, subjects_text) == Contains(Lower(subjects_text), Lower(topic))

\* Python: link.split('/')[-1], on the symbols of a link: what follows the
\* last symbol that ends with "/".
EndsWithSlash(c) == c \in {"/", "/abs/", "/pdf/", "https://"}
RECURSIVE LastSegment(_)
LastSegment(link) ==
    IF link = <<>> THEN <<>>
    ELSE IF EndsWithSlash(link[Len(link)]) THEN <<>>
    ELSE LastSegment(SubSeq(link, 1, Len(link) - 1)) \o <<link[Len(link)]>>

\* 'arxiv.org/abs/' in link
HasAbsMarker(link) ==
    \E i \in 1..Len(link) :
        /\ link[i] = "https://arxiv.org"
        /\ i < Len(link)
        /\ link[i + 1] = "/abs/"

\* scraper.py:93-123: the record built from one matching (dt, dd) pair
paper_of(dt, dd) ==
    LET title    == IF dd.title # NoElement
                    THEN RemoveSym(get_text_strip(dd.title), "Title:")
                    ELSE TitleNotFound
        authors  == IF dd.authors # NoElement
                    THEN RemoveSym(get_text_strip(dd.authors), "Authors:")
                    ELSE AuthorsNotFound
        link     == IF dt.link_tag /\ dt.href # None
                    THEN ArxivOrg \o dt.href
                    ELSE LinkNotFound
        abstract == IF dd.abstract # NoElement
                    THEN get_text_strip(dd.abstract)
                    ELSE AbstractNotFound
    IN  [title    |-> title,
         authors  |-> authors,
         link     |-> link,
         abstract |-> abstract,
         subjects |-> subjects_text_of(dd),
         paper_id |-> IF HasAbsMarker(link) THEN LastSegment(link) ELSE None]

\* scraper.py:85-127: for dt, dd in zip(find_all('dt'), find_all('dd')),
\* from the k-th pair on; the cap is tested after the append.
RECURSIVE parse_loop(_, _, _, _, _)
parse_loop(html, topic, max_papers, k, papers) ==
    IF k > Min(Len(html.dts), Len(html.dds)) THEN papers
    ELSE IF topic_matches(topic, subjects_text_of(html.dds[k]))
         THEN LET more == Append(papers, paper_of(html.dts[k], html.dds[k]))
              IN  IF Len(more) >= max_papers THEN more
                  ELSE parse_loop(html, topic, max_papers, k + 1, more)
         ELSE parse_loop(html, topic, max_papers, k + 1, papers)

\* "not html_content": None or the empty page
NoContent == [dts |-> <<>>, dds |-> <<>>, empty |-> TRUE]
Page(dts, dds) == [dts |-> dts, dds |-> dds, empty |-> FALSE]

\* ArxivScraper._parse_paper_data
parse_paper_data(html, topic, max_papers) ==
    IF html.empty THEN <<>> ELSE parse_loop(html, topic, max_papers, 1, <<>>)

(***************************************************************************)
(* Artifact names: scraper.py:148-153, summarizer.py:204-209, 264-267,     *)
(* 294-306                                                                 *)
(***************************************************************************)
\* The wall-clock minutes the model knows, in calendar order.
Clocks ==
    << [d |-> 1,  m |-> 1,  y |-> 2024, H |-> 9,  M |-> 0],
       [d |-> 1,  m |-> 1,  y |-> 2024, H |-> 10, M |-> 0],
       [d |-> 2,  m |-> 1,  y |-> 2024, H |-> 9,  M |-> 0],
       [d |-> 31, m |-> 12, y |-> 2024, H |-> 9,  M |-> 0],
       [d |-> 1,  m |-> 1,  y |-> 2025, H |-> 9,  M |-> 0] >>

DigitSyms == <<"0", "1", "2", "3", "4", "5", "6", "7", "8", "9">>
Digit(n) == DigitSyms[n + 1]
IsDigit(c) == \E i \in 1..Len(DigitSyms) : DigitSyms[i] = c
TwoDigits(n) == <<Digit((n \div 10) % 10), Digit(n % 10)>>
FourDigits(n) == TwoDigits(n \div 100) \o TwoDigits(n % 100)

\* datetime.strftime("%d%m%Y_%H%M")
strftime_name(c) ==
    TwoDigits(c.d) \o TwoDigits(c.m) \o FourDigits(c.y) \o <<"_">>
        \o TwoDigits(c.H) \o TwoDigits(c.M)

\* scraper.py:152   f"arxiv_papers_{timestamp}_{topic.replace(' ', '_')}.pdf"
papers_file_name(topic, c) ==
    <<"arxiv_papers_">> \o strftime_name(c) \o <<"_">>
        \o ReplaceSym(topic, " ", "_") \o <<".pdf">>

\* summarizer.py:208  f"arxiv_summary_{timestamp}_{topic.replace(' ', '_')}.pdf"
summary_file_name(topic, c) ==
    <<"arxiv_summary_">> \o strftime_name(c) \o <<"_">>
        \o ReplaceSym(topic, " ", "_") \o <<".pdf">>

\* The length of the run of digits of s that starts at position i.
RECURSIVE DigitRun(_, _)
DigitRun(s, i) ==
    IF i <= Len(s) /\ IsDigit(s[i]) THEN 1 + DigitRun(s, i + 1) ELSE 0

\* The positions of s holding symbol c.
Positions(s, c) == {i \in 1..Len(s) : s[i] = c}
MaxOf(S) == CHOOSE x \in S : \A y \in S : y <= x
MinOf(S) == CHOOSE x \in S : \A y \in S : x <= y

\* re.search(r'arxiv_papers_(\d+)_(.+)\.pdf', name) tried at position i:
\* the prefix, the whole run of digits (\d+ is greedy and the run is followed
\* by its first non-digit, which must be "_"), then (.+) up to the last ".pdf".
NameMatchAt(name, i) ==
    LET r    == DigitRun(name, i + 1)
        from == i + r + 2
        pdfs == {j \in Positions(name, ".pdf") : j > from}
    IN  IF /\ name[i] = "arxiv_papers_"
           /\ r >= 1
           /\ i + r + 1 <= Len(name)
           /\ name[i + r + 1] = "_"
           /\ pdfs # {}
        THEN [matched |-> TRUE,
              group1  |-> SubSeq(name, i + 1, i + r),
              group2  |-> SubSeq(name, from, MaxOf(pdfs) - 1)]
        ELSE [matched |-> FALSE, group1 |-> <<>>, group2 |-> <<>>]

\* re.search: the match at the leftmost of the positions that have one
leftmost_match(name, hits) ==
    IF hits = {} THEN [matched |-> FALSE, group1 |-> <<>>, group2 |-> <<>>]
    ELSE NameMatchAt(name, MinOf(hits))

name_search(name) ==
    leftmost_match(name, {i \in 1..Len(name) : NameMatchAt(name, i).matched})

\* A decoding anchored on both numeric groups of the name, ddMMyyyy and HHmm.
groups_two(m) ==
    IF m.matched /\ Len(m.group2) > 5 /\ DigitRun(m.group2, 1) = 4 /\ m.group2[5] = "_"
    THEN [matched  |-> TRUE,
          date_str |-> m.group1 \o <<"_">> \o SubSeq(m.group2, 1, 4),
          topic    |-> ReplaceSym(SubSeq(m.group2, 6, Len(m.group2)), "_", " ")]
    ELSE [matched |-> FALSE, date_str |-> <<>>, topic |-> <<>>]

decode_name_two_groups(name) == groups_two(name_search(name))

\* summarizer.py:297-301: date_str = group(1), topic = group(2).replace('_', ' ')
groups_of_match(m) ==
    [matched  |-> m.matched,
     date_str |-> m.group1,
     topic    |-> ReplaceSym(m.group2, "_", " ")]

decode_name(name) == groups_of_match(name_search(name))

(***************************************************************************)
(* Artifact renderer, collection mode: ArxivScraper._create_pdf            *)
(*                                                                         *)
(* A document is the sequence of flowables handed to the layout engine.    *)
(* A paragraph holds markup; the engine lays out its plain text.           *)
(***************************************************************************)
\* xml.sax.saxutils.escape
EscapeSym(c) ==
    CASE c = "&" -> "&amp;"
      [] c = "<" -> "&lt;"
      [] c = ">" -> "&gt;"
      [] c = "<b>" -> "&lt;b&gt;"
      [] OTHER -> c
escape(s) == [i \in 1..Len(s) |-> EscapeSym(s[i])]

Paragraph(markup, style) == [kind |-> "para", style |-> style, markup |-> markup]
Spacer == [kind |-> "spacer", style |-> "", markup |-> <<>>]

\* f"<link href='{link}'>{link}</link>"
link_markup(link) == <<"<link href='">> \o link \o <<"'>">> \o link \o <<"</link>">>

\* datetime.now().strftime('%Y-%m-%d %H:%M')
strftime_header(c) ==
    FourDigits(c.y) \o <<"-">> \o TwoDigits(c.m) \o <<"-">> \o TwoDigits(c.d)
        \o <<" ">> \o TwoDigits(c.H) \o <<":">> \o TwoDigits(c.M)

\* scraper.py:165-179: the flowables of the records, in order
RECURSIVE paper_blocks(_)
paper_blocks(papers) ==
    IF papers = <<>> THEN <<>>
    ELSE LET paper == Head(papers)
         IN  << Paragraph(escape(paper.title), "TitleStyle"),
                Paragraph(escape(paper.authors), "Italic"),
                Paragraph(link_markup(paper.link), "LinkStyle"),
                Paragraph(escape(paper.subjects), "BodyText"),
                Paragraph(escape(paper.abstract), "BodyText"),
                Spacer >>
             \o paper_blocks(Tail(papers))

\* scraper.py:155-179: elements
papers_elements(papers, topic, c) ==
    << Paragraph(<<"ArXiv", " ", "Papers:", " ">> \o topic, "Title"),
       Paragraph(<<"Generated", " ", "on:", " ">> \o strftime_header(c), "Normal"),
       Paragraph(<<"Contains", " ", Digit(Len(papers)), " ", "papers">>, "Normal"),
       Spacer >>
    \o paper_blocks(papers)

\* reportlab's Paragraph(text, style) parses its text as markup when it is
\* constructed, and raises ValueError when the text does not parse: here,
\* when it opens a tag that it never closes.
markup_parses(markup) == \A i \in 1..Len(markup) : markup[i] # "<b>"
layout_ok(elements) ==
    \A i \in 1..Len(elements) :
        elements[i].kind = "para" => markup_parses(elements[i].markup)

\* The outcome of a render: the path returned ("" when nothing was written),
\* the directory afterwards, and whether an exception left the renderer.
NoPath == <<>>
Rendered(path, dir) == [path |-> path, dir |-> dir, raised |-> FALSE]
LayoutError(dir) == [path |-> NoPath, dir |-> dir, raised |-> TRUE]

\* SimpleDocTemplate(file_path).build(elements): the file is opened for
\* writing, so a file of that name is replaced.
write_file(dir, name, doc) ==
    [n \in DOMAIN dir \cup {name} |-> IF n = name THEN doc ELSE dir[n]]

\* scraper.py:181-189: only pdf.build(elements) stands in the try block
build_pdf(dir, file_name, elements, build_ok) ==
    IF build_ok THEN Rendered(file_name, write_file(dir, file_name, elements))
    ELSE Rendered(NoPath, dir)

\* ArxivScraper._create_pdf; build_ok: whether SimpleDocTemplate.build
\* succeeds.  The paragraphs are constructed (scraper.py:155-179) outside
\* the try block.
create_pdf(dir, papers, topic, c, build_ok) ==
    IF papers = <<>> THEN Rendered(NoPath, dir)
    ELSE IF ~layout_ok(papers_elements(papers, topic, c)) THEN LayoutError(dir)
    ELSE build_pdf(dir, papers_file_name(topic, c),
                   papers_elements(papers, topic, c), build_ok)

(***************************************************************************)
(* Listing fetcher: ArxivScraper._fetch_arxiv_page                         *)
(***************************************************************************)
\* What requests.get(url, timeout=15) meets: a response with a success
\* status and a body ("ok"), one with an empty body ("empty_body"), one with
\* an error status and the body of an error page ("http_error"), or no
\* response at all ("transport_error").
FetchOk(page)      == [kind |-> "ok", page |-> page]
FetchFailures(page) ==
    {[kind |-> "empty_body", page |-> NoContent],
     [kind |-> "http_error", page |-> page],
     [kind |-> "transport_error", page |-> NoContent]}

\* A fetcher without response.raise_for_status(): the body of an error page
\* is returned as the listing.
fetch_arxiv_page_any_status(outcome) == outcome.page

\* ArxivScraper._fetch_arxiv_page: response.text, or None when requests.get
\* or raise_for_status raised a RequestException
fetch_arxiv_page(outcome) ==
    IF outcome.kind \in {"ok", "empty_body"} THEN outcome.page ELSE NoContent

(***************************************************************************)
(* Collect: ArxivScraper.scrape_papers                                     *)
(***************************************************************************)
\* results[topic] = pdf_path
dict_set(d, key, value) ==
    [k \in DOMAIN d \cup {key} |-> IF k = key THEN value ELSE d[k]]

\* A loop that fetches the listing again for every topic.
topic_done_refetch(st, topic, papers, r) ==
    [dir     |-> r.dir,
     results |-> IF papers # <<>> /\ r.path # NoPath
                 THEN dict_set(st.results, topic, r.path)
                 ELSE st.results,
     seen    |-> Append(st.seen, [topic |-> topic, path |-> r.path]),
     raised  |-> r.raised,
     fetches |-> st.fetches + 1]

\* scraper.py:213-217: results[topic] = pdf_path when a path came back; st
\* holds the directory, the results mapping, per topic processed the path
\* its render returned, whether an exception has left the loop, and the
\* number of calls of _fetch_arxiv_page made.
topic_done(st, topic, papers, r) ==
    [dir     |-> r.dir,
     results |-> IF papers # <<>> /\ r.path # NoPath
                 THEN dict_set(st.results, topic, r.path)
                 ELSE st.results,
     seen    |-> Append(st.seen, [topic |-> topic, path |-> r.path]),
     raised  |-> r.raised,
     fetches |-> st.fetches]

\* scraper.py:212-214: if papers: pdf_path = self._create_pdf(papers, topic)
scrape_topic(st, topic, papers, c, ok) ==
    topic_done(st, topic, papers,
               IF papers # <<>> THEN create_pdf(st.dir, papers, topic, c, ok)
               ELSE Rendered(NoPath, st.dir))

\* scraper.py:210-217: for topic in topics; nothing in the loop catches
\* what _create_pdf raises
RECURSIVE scrape_loop(_, _, _, _, _, _)
scrape_loop(st, html, topics, max_papers, c, build_ok) ==
    IF topics = <<>> \/ st.raised THEN st
    ELSE scrape_loop(scrape_topic(st, Head(topics),
                                  parse_paper_data(html, Head(topics), max_papers),
                                  c, build_ok[Len(st.seen) + 1]),
                     html, Tail(topics), max_papers, c, build_ok)

\* scraper.py:201-204: results = {}; one call of _fetch_arxiv_page
scrape_start(dir) ==
    [dir |-> dir, results |-> <<>>, seen |-> <<>>, raised |-> FALSE, fetches |-> 1]

\* ArxivScraper.scrape_papers; html is what _fetch_arxiv_page returned
\* (NoContent when the fetch failed)
scrape_papers(dir, html, topics, max_papers, c, build_ok) ==
    IF html.empty THEN scrape_start(dir)
    ELSE scrape_loop(scrape_start(dir), html, topics, max_papers, c, build_ok)

(***************************************************************************)
(* Artifact re-parser: ArxivSummarizer._extract_text_from_pdf and          *)
(* _parse_papers_from_pdf                                                  *)
(***************************************************************************)
UnescapeSym(c) ==
    CASE c = "&amp;" -> "&"
      [] c = "&lt;" -> "<"
      [] c = "&gt;" -> ">"
      [] c = "&lt;b&gt;" -> "<b>"
      [] OTHER -> c

\* Position i of a paragraph's markup lies inside the opening link tag: a
\* "<link href='" before it is not yet closed by a "'>".
InTag(markup, i) ==
    \E j \in 1..(i - 1) :
        /\ markup[j] = "<link href='"
        /\ \A k \in (j + 1)..(i - 1) : markup[k] # "'>"

\* The positions of a paragraph's markup that are drawn: outside the tags.
Drawn(markup) ==
    {k \in 1..Len(markup) :
        ~InTag(markup, k) /\ markup[k] \notin {"<link href='", "</link>"}}

\* The text the layout engine draws for a paragraph's markup: entities
\* resolved, the link tag and its attribute dropped.
unescape(s) == [i \in 1..Len(s) |-> UnescapeSym(s[i])]
plain_text(markup) == unescape(Keep(markup, Drawn(markup)))

\* The line a flowable gives in the text layer.  Whether the vertical space
\* of a Spacer shows as an empty line is the text extractor's choice (blank).
text_line(f, blank) ==
    IF f.kind = "para" THEN plain_text(f.markup) \o <<"\n">>
    ELSE IF blank THEN <<"\n">> ELSE <<>>

\* The text layer of a document, as PdfReader's pages[...].extract_text()
\* gives it: one line per paragraph.
text_layer(doc, blank) ==
    Flatten([i \in 1..Len(doc) |-> text_line(doc[i], blank)], 1, Len(doc))

\* ArxivSummarizer._extract_text_from_pdf; read_ok: whether PdfReader reads
\* the file without an exception
extract_text_from_pdf(dir, path, read_ok, blank) ==
    IF read_ok /\ path \in DOMAIN dir THEN text_layer(dir[path], blank) ELSE <<>>

\* ---- the pattern of summarizer.py:104, with re.DOTALL:
\*   (?:^|\n)(.+?)\n(.*?Authors:.*?)(?:https://arxiv\.org\S+)\n(.*?Subjects:.*?)\n(.*?)(?:\n\n|\Z)
\* Each piece below is the pattern's backtracking search, resolved: a lazy
\* quantifier takes the shortest extent for which the rest of the pattern
\* matches, a greedy one the longest.

\* The length of the run of non-space symbols of t that starts at i (\S+).
RECURSIVE NonSpaceRun(_, _)
NonSpaceRun(t, i) ==
    IF i <= Len(t) /\ ~IsSpace(t[i]) THEN 1 + NonSpaceRun(t, i + 1) ELSE 0

\* The least element of S that is at least i, or 0 when there is none.
FirstFrom(S, i) == IF \E x \in S : x >= i THEN MinOf({x \in S : x >= i}) ELSE 0

Newlines(t) == Positions(t, "\n")

\* (.*?Subjects:.*?)\n can match from q: some "Subjects:" at or after q is
\* followed, later, by a newline.
SubjectsEnd(t, q) ==
    LET sb == FirstFrom(Positions(t, "Subjects:"), q)
    IN  IF sb = 0 THEN 0 ELSE FirstFrom(Newlines(t), sb + 1)

\* (?:https://arxiv\.org\S+)\n(.*?Subjects:.*?)\n ... can match at u: \S+ is
\* greedy and must stop right before a newline, so it takes the whole run.
UrlOK(t, u) ==
    LET run == NonSpaceRun(t, u + 1)
    IN  /\ u <= Len(t)
        /\ t[u] = "https://arxiv.org"
        /\ run >= 1
        /\ u + run + 1 <= Len(t)
        /\ t[u + run + 1] = "\n"
        /\ SubjectsEnd(t, u + run + 2) # 0

\* (.*?Authors:.*?)(?:https...) from q: the position of the URL, or 0.
UrlAfterAuthors(t, q) ==
    LET a == FirstFrom(Positions(t, "Authors:"), q)
    IN  IF a = 0 THEN 0
        ELSE FirstFrom({u \in 1..Len(t) : UrlOK(t, u)}, a + 1)

\* (.*?)(?:\n\n|\Z) from q: the end of the abstract group
AbstractEnd(t, q) ==
    MinOf({e \in (q - 1)..Len(t) :
              \/ e = Len(t)
              \/ (e + 2 <= Len(t) /\ t[e + 1] = "\n" /\ t[e + 2] = "\n")})

NoMatch == [matched |-> FALSE, groups |-> <<>>, end |-> 0]

\* The four groups, given where each piece of the pattern stops: the title
\* at e1, the URL from u, the subjects group from q3 to e3, the abstract
\* group at e4.
match_groups(t, p, e1, u, q3, e3, e4) ==
    [matched |-> TRUE,
     groups  |-> << Slice(t, p, e1), Slice(t, e1 + 2, u - 1),
                    Slice(t, q3, e3), Slice(t, e3 + 2, e4) >>,
     end     |-> IF e4 = Len(t) THEN e4 ELSE e4 + 2]

match_from_subjects(t, p, e1, u, q3, e3) ==
    match_groups(t, p, e1, u, q3, e3, AbstractEnd(t, e3 + 2))

match_from_url(t, p, e1, u) ==
    match_from_subjects(t, p, e1, u, u + NonSpaceRun(t, u + 1) + 2,
                        SubjectsEnd(t, u + NonSpaceRun(t, u + 1) + 2) - 1)

\* (.+?)\n: the title ends at the first newline after which the rest matches
match_from_title_ends(t, p, ends) ==
    IF p > Len(t) \/ ends = {} THEN NoMatch
    ELSE match_from_url(t, p, MinOf(ends), UrlAfterAuthors(t, MinOf(ends) + 2))

\* The rest of the pattern after (?:^|\n), the title starting at p.
MatchFromTitle(t, p) ==
    match_from_title_ends(t, p,
        {e \in p..(Len(t) - 1) : t[e + 1] = "\n" /\ UrlAfterAuthors(t, e + 2) # 0})

\* The pattern tried at position s: (?:^|\n), the ^ alternative first.
MatchAt(t, s) ==
    IF s = 1 /\ MatchFromTitle(t, 1).matched THEN MatchFromTitle(t, 1)
    ELSE IF s <= Len(t) /\ t[s] = "\n" THEN MatchFromTitle(t, s + 1)
    ELSE NoMatch

\* The leftmost match among the positions hits.
first_match(t, hits) == IF hits = {} THEN NoMatch ELSE MatchAt(t, MinOf(hits))

\* re.findall(title_pattern, text, re.DOTALL): the non-overlapping matches,
\* scanning from s; m is the leftmost match from s on.
RECURSIVE findall_from(_, _)
RECURSIVE findall_next(_, _)
findall_next(t, m) ==
    IF m.matched THEN <<m.groups>> \o findall_from(t, m.end + 1) ELSE <<>>

findall_from(t, s) ==
    findall_next(t, first_match(t, {i \in s..Len(t) : MatchAt(t, i).matched}))

\* re.search(r"(https://arxiv\.org\S+)", s): the first URL of s, or None
first_url(s) ==
    LET hits == {u \in 1..Len(s) : s[u] = "https://arxiv.org" /\ NonSpaceRun(s, u + 1) >= 1}
    IN  IF hits = {} THEN None
        ELSE LET u == MinOf(hits) IN SubSeq(s, u, u + NonSpaceRun(s, u + 1))

\* summarizer.py:107-127: the record of one match
paper_of_match(match) ==
    LET link == first_url(match[2] \o match[3])
    IN  [title    |-> Strip(match[1]),
         authors  |-> Strip(RemoveSym(Strip(match[2]), "Authors:")),
         subjects |-> Strip(RemoveSym(Strip(match[3]), "Subjects:")),
         abstract |-> Strip(match[4]),
         link     |-> link,
         paper_id |-> IF link # None /\ HasAbsMarker(link) THEN LastSegment(link)
                      ELSE None]

\* ArxivSummarizer._parse_papers_from_pdf, on the extracted text
papers_of_matches(matches) ==
    [i \in 1..Len(matches) |-> paper_of_match(matches[i])]

papers_of_text(text) == papers_of_matches(findall_from(text, 1))

parse_papers_from_pdf(dir, path, read_ok, blank) ==
    LET text == extract_text_from_pdf(dir, path, read_ok, blank)
    IN  IF text = <<>> THEN <<>> ELSE papers_of_text(text)

(***************************************************************************)
(* Artifact renderer, summary mode: ArxivSummarizer._create_summary_pdf    *)
(***************************************************************************)
\* summarizer.py:227-231; a delegated summary never raises (it falls back)
summary_of(paper, use_ai, env) ==
    IF use_ai THEN generate_ai_summary(paper, env).value
    ELSE generate_simple_summary(paper)

\* summarizer.py:222-242: the flowables of the records, in order
RECURSIVE summary_blocks(_, _, _)
summary_blocks(papers, use_ai, env) ==
    IF papers = <<>> THEN <<>>
    ELSE LET paper   == Head(papers)
             title   == Get(paper, "title", <<"Unknown", " ", "Title">>)
             authors == Get(paper, "authors", <<"Unknown", " ", "Authors">>)
             link    == Get(paper, "link", <<>>)
         IN  << Paragraph(title, "TitleStyle"), Paragraph(authors, "Italic") >>
             \o (IF Truthy(link) THEN << Paragraph(link_markup(link), "LinkStyle") >>
                 ELSE <<>>)
             \o << Paragraph(<<"Summary:">>, "SectionTitle"),
                   Paragraph(summary_of(paper, use_ai, env), "BodyText"),
                   Spacer >>
             \o summary_blocks(Tail(papers), use_ai, env)

\* summarizer.py:211-242: elements
summary_elements(papers, topic, c, use_ai, env) ==
    << Paragraph(<<"ArXiv", " ", "Papers", " ", "Summary:", " ">> \o topic, "Title"),
       Paragraph(<<"Generated", " ", "on:", " ">> \o strftime_header(c), "Normal"),
       Paragraph(<<"Contains", " ", "summaries", " ", "of", " ",
                   Digit(Len(papers)), " ", "papers">>, "Normal"),
       Spacer >>
    \o summary_blocks(papers, use_ai, env)

\* ArxivSummarizer._create_summary_pdf: the paragraphs are constructed
\* (summarizer.py:211-242), from text that is not escaped, outside the try
\* block of summarizer.py:244-252
create_summary_pdf(dir, papers, topic, c, use_ai, env, build_ok) ==
    IF papers = <<>> THEN Rendered(NoPath, dir)
    ELSE IF ~layout_ok(summary_elements(papers, topic, c, use_ai, env))
    THEN LayoutError(dir)
    ELSE build_pdf(dir, summary_file_name(topic, c),
                   summary_elements(papers, topic, c, use_ai, env), build_ok)

(***************************************************************************)
(* Summarize: ArxivSummarizer.summarize_papers, summarize_latest_papers    *)
(***************************************************************************)
\* env: what one Summarize run meets outside the program: env.ai, the
\* delegated capability (one outcome for every remote call of the run);
\* env.blank, how the text extractor shows a Spacer; env.fate, per decoded
\* topic, whether its artifact cannot be read ("unreadable") or its summary
\* document cannot be written ("unwritable").
\* ArxivSummarizer.summarize_papers
\* summarizer.py:267: topic_match.group(1).replace('_', ' ') or "Unknown"
topic_of(m) == IF m.matched THEN m.topic ELSE <<"Unknown">>

fate_of(env, topic) == IF topic \in DOMAIN env.fate THEN env.fate[topic] ELSE "ok"

\* summarizer.py:269-273
summarize_topic(in_dir, out_dir, pdf_path, c, use_ai, env, topic) ==
    create_summary_pdf(out_dir,
                       parse_papers_from_pdf(in_dir, pdf_path,
                                             fate_of(env, topic) # "unreadable",
                                             env.blank),
                       topic, c, use_ai, env.ai, fate_of(env, topic) # "unwritable")

summarize_papers(in_dir, out_dir, pdf_path, c, use_ai, env) ==
    summarize_topic(in_dir, out_dir, pdf_path, c, use_ai, env,
                    topic_of(decode_name(pdf_path)))

\* Python's order on strings, on the symbols of the model: the code point
\* of a symbol's first character.
SymRank(c) ==
    CASE c = " " -> 32
      [] c = ".pdf" -> 46
      [] IsDigit(c) -> 48 + (CHOOSE i \in 0..9 : DigitSyms[i + 1] = c)
      [] c = "A" -> 65
      [] c = "I" -> 73
      [] c = "L" -> 76
      [] c = "M" -> 77
      [] c = "Q" -> 81
      [] c = "_" -> 95
      [] c = "a" -> 97
      [] c = "arxiv_papers_" -> 97
      [] c = "i" -> 105
      [] OTHER -> 128

\* a < b: at the first position where they differ, or a a proper prefix of b
first_diff(a, b, diffs) ==
    IF diffs = {} THEN Len(a) < Len(b)
    ELSE SymRank(a[MinOf(diffs)]) < SymRank(b[MinOf(diffs)])

StrLess(a, b) ==
    first_diff(a, b, {i \in 1..Min(Len(a), Len(b)) : SymRank(a[i]) # SymRank(b[i])})

\* the order of the (date_str, pdf_file) tuples that files.sort uses
EntryLess(x, y) ==
    \/ StrLess(x.date_str, y.date_str)
    \/ (x.date_str = y.date_str /\ StrLess(x.file, y.file))

\* summarizer.py:286-290: the files of the input directory taken as artifacts
pdf_files(dir) ==
    {f \in DOMAIN dir : EndsWith(f, <<".pdf">>) /\ Contains(f, <<"arxiv_papers_">>)}

\* summarizer.py:293-306: topics[topic] = [(date_str, pdf_file), ...]
groups_of(named) ==
    [t \in {d.m.topic : d \in named} |->
        {[date_str |-> d.m.date_str, file |-> d.file] :
            d \in {x \in named : x.m.topic = t}}]

topic_groups(dir) ==
    groups_of({d \in {[file |-> f, m |-> decode_name(f)] : f \in pdf_files(dir)} :
                  d.m.matched})

\* summarizer.py:311-312: files.sort(reverse=True); latest_file = files[0][1]
latest_file(files) ==
    (CHOOSE x \in files : \A y \in files : y = x \/ EntryLess(y, x)).file

\* summarizer.py:315-317: if summary_file: summary_files.append(summary_file);
\* st holds the summary directory, the files selected, the paths collected
\* so far and whether an exception has left the loop.
group_done(st, topic, latest, r) ==
    [dir           |-> r.dir,
     selected      |-> st.selected \cup
                       {[topic |-> topic, file |-> latest, path |-> r.path]},
     summary_files |-> IF r.path # NoPath THEN st.summary_files \cup {r.path}
                       ELSE st.summary_files,
     raised        |-> r.raised]

\* summarizer.py:309-317, over the groups not yet processed; nothing in the
\* loop catches what summarize_papers raises
RECURSIVE summarize_groups(_, _, _, _, _, _, _)
RECURSIVE summarize_group(_, _, _, _, _, _, _, _)
summarize_group(st, groups, todo, topic, in_dir, c, use_ai, env) ==
    summarize_groups(
        group_done(st, topic, latest_file(groups[topic]),
                   summarize_papers(in_dir, st.dir, latest_file(groups[topic]),
                                    c, use_ai, env)),
        groups, todo \ {topic}, in_dir, c, use_ai, env)

summarize_groups(st, groups, todo, in_dir, c, use_ai, env) ==
    IF todo = {} \/ st.raised THEN st
    ELSE summarize_group(st, groups, todo, CHOOSE t \in todo : TRUE,
                         in_dir, c, use_ai, env)

\* ArxivSummarizer.summarize_latest_papers.  The groups are processed in the
\* order os.listdir gives; every group writes a file of its own, so the
\* result is the same in any order, and the returned list is kept as a set.
summarize_latest_papers(in_dir, out_dir, c, use_ai, env) ==
    LET groups == topic_groups(in_dir)
    IN  summarize_groups([dir |-> out_dir, selected |-> {}, summary_files |-> {},
                          raised |-> FALSE],
                         groups, DOMAIN groups, in_dir, c, use_ai, env)

(***************************************************************************)
(* The scheduler's tasks: ArxivScheduler._scrape_task, _summary_task       *)
(***************************************************************************)
\* A handler that catches file-system errors only.
task_handler_catches_os_errors(exc) == exc \in {"FileNotFoundError"}

\* scheduler.py:137, 160  "except Exception": what the body of a task can
\* raise derives from Exception
task_handler_catches(exc) == exc \in {"FileNotFoundError", "ValueError"}

\* What the body of a task's try block leaves: the directory, what the call
\* returned (nothing when an exception left it) and that exception.
task_outcome(dir, returned, detail, exc) ==
    [dir |-> dir, returned |-> returned, detail |-> detail, exc |-> exc,
     crossed |-> exc # "none" /\ ~task_handler_catches(exc)]

\* scheduler.py:123-127, given what scrape_papers did
scrape_task_done(fetched, r) ==
    task_outcome(r.dir,
                 IF r.raised THEN <<>> ELSE r.results,
                 [html |-> fetched, seen |-> r.seen, fetches |-> r.fetches],
                 IF r.raised THEN "ValueError" ELSE "none")

\* ArxivScheduler._scrape_task: the topics file is opened and read
\* (scheduler.py:114-115), then one call of scrape_papers; net is the
\* outcome of the listing request
scrape_task(dir, cfg, net, c, build_ok) ==
    IF ~cfg.topics_readable
    THEN task_outcome(dir, <<>>,
                      [html |-> NoContent, seen |-> <<>>, fetches |-> 0],
                      "FileNotFoundError")
    ELSE scrape_task_done(fetch_arxiv_page(net),
                          scrape_papers(dir, fetch_arxiv_page(net), cfg.topics,
                                        cfg.max_papers_per_topic, c, build_ok))

\* scheduler.py:145-150, given what summarize_latest_papers did
summary_task_done(r) ==
    task_outcome(r.dir,
                 IF r.raised THEN {} ELSE r.summary_files,
                 [selected |-> r.selected],
                 IF r.raised THEN "ValueError" ELSE "none")

\* ArxivScheduler._summary_task
summary_task(in_dir, out_dir, cfg, c, env) ==
    summary_task_done(summarize_latest_papers(in_dir, out_dir, c,
                                              cfg.use_ai_summaries, env))

(***************************************************************************)
(* Configuration: ArxivScheduler._load_config, _setup_logging               *)
(*                                                                         *)
(* A JSON value is a record that says its type.  A JSON object, and the    *)
(* configuration dictionary, is a function from keys to JSON values.       *)
(***************************************************************************)
JStr(x)  == [type |-> "str", s |-> x, n |-> 0, b |-> FALSE]
JInt(x)  == [type |-> "int", s |-> "", n |-> x, b |-> FALSE]
JBool(x) == [type |-> "bool", s |-> "", n |-> 0, b |-> x]
JNull    == [type |-> "null", s |-> "", n |-> 0, b |-> FALSE]

DefaultMaxPapers == 100

\* scheduler.py:62-70
default_config ==
    [k \in {"scrape_schedule", "summary_schedule", "use_ai_summaries",
            "openai_api_key", "max_papers_per_topic", "arxiv_category",
            "log_level"} |->
        CASE k = "scrape_schedule"      -> JStr("09:00")
          [] k = "summary_schedule"     -> JStr("10:00")
          [] k = "use_ai_summaries"     -> JBool(FALSE)
          [] k = "openai_api_key"       -> JNull
          [] k = "max_papers_per_topic" -> JInt(DefaultMaxPapers)
          [] k = "arxiv_category"       -> JStr("cs")
          [] k = "log_level"            -> JStr("INFO")]

\* The configuration file: absent; present but no JSON text ("corrupt");
\* JSON text of a value that is no object ("array"); or a JSON object.
AbsentFile      == [kind |-> "absent", obj |-> <<>>]
CorruptFile     == [kind |-> "corrupt", obj |-> <<>>]
ArrayFile       == [kind |-> "array", obj |-> <<>>]
ObjectFile(obj) == [kind |-> "object", obj |-> obj]

\* A merge in which the defaults win over the file.
dict_merge_defaults_win(defaults, obj) ==
    [k \in DOMAIN defaults \cup DOMAIN obj |->
        IF k \in DOMAIN defaults THEN defaults[k] ELSE obj[k]]

\* Python: {**defaults, **obj}
dict_merge(defaults, obj) ==
    [k \in DOMAIN defaults \cup DOMAIN obj |->
        IF k \in DOMAIN obj THEN obj[k] ELSE defaults[k]]

\* scheduler.py:80-87: the default file is written (json.dump), or writing
\* raises and the error is logged; the defaults are returned
create_default_config(file, write_ok) ==
    [config |-> default_config,
     file   |-> IF write_ok THEN ObjectFile(default_config) ELSE file]

\* ArxivScheduler._load_config.  scheduler.py:73-78: a file that exists is
\* opened and parsed; json.load raises for a corrupt text, and ** raises
\* TypeError for a value that is no mapping; both are caught.
load_config(file, write_ok) ==
    IF file.kind = "object"
    THEN [config |-> dict_merge(default_config, file.obj), file |-> file]
    ELSE create_default_config(file, write_ok)

(***************************************************************************)
(* Specification SpecSummary: the summary generator on every abstract of   *)
(* at most MaxAbstractLen symbols.                                         *)
(***************************************************************************)
MaxAbstractLen == 6
AbstractAlphabet == {"a", ".", " "}
Abstracts == SeqsUpTo(AbstractAlphabet, MaxAbstractLen)

SumPapers ==
    {[abstract |-> a, title |-> <<"t">>] : a \in Abstracts}
        \cup {[title |-> <<"t">>]}

RemoteOutcomes ==
    {[kind |-> k, content |-> None] : k \in {"raise", "no_choices", "null_content"}}
        \cup {[kind |-> "text", content |-> c] : c \in {<<"s">>, <<" ", "s", ".", " ">>}}

SumEnvs ==
    [available : BOOLEAN, key : {None, <<>>, <<"k">>}, outcome : RemoteOutcomes]

NoEnv == [available |-> FALSE, key |-> None,
          outcome |-> [kind |-> "raise", content |-> None]]
CallOf(op, r) == [op |-> op, raised |-> r.raised, exc |-> r.exc, value |-> r.value]
NoCall == [op |-> "none", raised |-> FALSE, exc |-> None, value |-> None]

PipeIdle ==
    /\ clock = 1
    /\ papersDir = <<>>
    /\ summaryDir = <<>>
    /\ last = [op |-> "none"]
    /\ runs = 0
    /\ config = [topics |-> <<>>, topics_readable |-> FALSE,
                 max_papers_per_topic |-> 0, use_ai_summaries |-> FALSE]
SumIdle == sumPaper = [title |-> <<"t">>] /\ sumEnv = NoEnv /\ sumRet = NoCall
ExIdle  == exIn = [html |-> NoContent, topic |-> <<>>, max_papers |-> 0]
           /\ exRet = [called |-> FALSE, papers |-> <<>>]
NmIdle  == nmIn = [topic |-> <<>>, clock |-> 1] /\ nmRet = [step |-> "start"]
CfgIdle == cfgFile = AbsentFile /\ cfgRet = [called |-> FALSE]
CliIdle == cli = [command |-> "none", use_ai |-> FALSE, status |-> "idle",
                  exc |-> "none"]
SchedIdle == sched = [state |-> "idle"]
RunIdle == CfgIdle /\ CliIdle /\ SchedIdle

SumInit ==
    /\ sumPaper \in SumPapers
    /\ sumEnv = NoEnv
    /\ sumRet = NoCall
    /\ PipeIdle /\ ExIdle /\ NmIdle /\ RunIdle

\* the caller asks for the extractive summary (use_ai false)
SimpleSummaryCall ==
    /\ sumRet.op = "none"
    /\ sumRet' = CallOf("simple", Returned(generate_simple_summary(sumPaper)))
    /\ UNCHANGED <<sumPaper, sumEnv>>
    /\ UNCHANGED <<pipeVars, exVars, nmVars, runVars>>

\* the caller asks for the delegated summary (use_ai true)
AiSummaryCall ==
    /\ sumRet.op = "none"
    /\ \E env \in SumEnvs :
        /\ sumEnv' = env
        /\ sumRet' = CallOf("ai", generate_ai_summary(sumPaper, env))
    /\ UNCHANGED sumPaper
    /\ UNCHANGED <<pipeVars, exVars, nmVars, runVars>>

SumNext == SimpleSummaryCall \/ AiSummaryCall
SpecSummary == SumInit /\ [][SumNext]_vars

(***************************************************************************)
(* Specification SpecExtract: the entry extractor on every listing of at   *)
(* most MaxEntries <dt> and <dd> blocks, every topic and every cap up to   *)
(* MaxCap.                                                                 *)
(***************************************************************************)
MaxEntries == 3
MaxCap == 2

TopicML == <<"M", "L">>
TopicAi == <<"a", "i">>
TopicQ  == <<"Q">>

\* <dd> blocks: subjects "ML", subjects "ml" (lower case), subjects "AI",
\* and a block none of whose fields is found.
DdML ==
    [subjects |-> << <<"Subjects:">>, <<" ", "M", "L", " ">> >>,
     title    |-> << <<"Title:">>, <<"\n", "T", "\n">> >>,
     authors  |-> << <<"Authors:">>, <<"B">> >>,
     abstract |-> << <<" ", "a", ".", " ", "b", " ">> >>]
DdMlLower ==
    [subjects |-> << <<"Subjects:">>, <<"m", "l">> >>,
     title    |-> << <<"Title:">>, <<"t">> >>,
     authors  |-> << <<"B">> >>,
     abstract |-> << <<"a", ".">> >>]
DdAI ==
    [subjects |-> << <<"Subjects:">>, <<"A", "I">>, <<";", " ", "M", "L">> >>,
     title    |-> << <<"Title:">>, <<"I">> >>,
     authors  |-> << <<"Authors:">>, <<"B">> >>,
     abstract |-> << <<"a", ".", " ", "b", ".", " ", "a", ".", " ", "b", ".">> >>]
DdBare ==
    [subjects |-> NoElement, title |-> NoElement,
     authors |-> NoElement, abstract |-> NoElement]
DdKinds == {DdML, DdMlLower, DdAI, DdBare}

\* <dt> blocks: with the abstract link, and without it
DtLinked == [link_tag |-> TRUE, href |-> <<"/abs/", "1">>]
DtBare   == [link_tag |-> FALSE, href |-> None]
DtKinds  == {DtLinked, DtBare}

ExPages ==
    {Page(dts, dds) : dts \in SeqsUpTo(DtKinds, MaxEntries),
                      dds \in SeqsUpTo(DdKinds, MaxEntries)}
ExTopics == {TopicML, TopicAi, TopicQ}


ExInit ==
    /\ exIn \in [html : ExPages \cup {NoContent}, topic : ExTopics, max_papers : 0..MaxCap]
    /\ exRet = [called |-> FALSE, papers |-> <<>>]
    /\ PipeIdle /\ SumIdle /\ NmIdle /\ RunIdle

\* one call of _parse_paper_data
ParseCall ==
    /\ ~exRet.called
    /\ exRet' = [called |-> TRUE,
                 papers |-> parse_paper_data(exIn.html, exIn.topic, exIn.max_papers)]
    /\ UNCHANGED exIn
    /\ UNCHANGED <<pipeVars, sumVars, nmVars, runVars>>

ExNext == ParseCall
SpecExtract == ExInit /\ [][ExNext]_vars

(***************************************************************************)
(* Specification SpecFields: the entry extractor on listings whose first   *)
(* entry has each field located with text, located without text, or not   *)
(* located, followed or not by a complete entry.                           *)
(***************************************************************************)
\* a field's element: not found, found with no text in it, found with text
TitleElements    == {NoElement, << <<"Title:">> >>, << <<"Title:">>, <<"T">> >>}
AuthorsElements  == {NoElement, << <<"Authors:">>, <<"B">> >>}
AbstractElements == {NoElement, << <<" ">> >>, << <<"a", ".">> >>}
SubjectsElements == {NoElement, << <<"Subjects:">>, <<"M", "L">> >>}

FieldDds ==
    [subjects : SubjectsElements, title : TitleElements,
     authors : AuthorsElements, abstract : AbstractElements]

FieldPages ==
    {Page(<<dt>> \o rest, <<dd>> \o SubSeq(<<DdML>>, 1, Len(rest))) :
        dt \in DtKinds, dd \in FieldDds, rest \in {<<>>, <<DtLinked>>}}

FieldInit ==
    /\ exIn \in [html : FieldPages, topic : {TopicML}, max_papers : {MaxCap}]
    /\ exRet = [called |-> FALSE, papers |-> <<>>]
    /\ PipeIdle /\ SumIdle /\ NmIdle /\ RunIdle

SpecFields == FieldInit /\ [][ExNext]_vars

(***************************************************************************)
(* Specification SpecName: a name is built for a topic at a minute, then   *)
(* decoded by the catalog.                                                 *)
(***************************************************************************)
MaxTopicLen == 3
NameTopics == SeqsUpTo({"M", "3", " "}, MaxTopicLen) \ {<<>>}

NmInit ==
    /\ nmIn \in [topic : NameTopics, clock : 1..Len(Clocks)]
    /\ nmRet = [step |-> "start", name |-> <<>>,
                decoded |-> [matched |-> FALSE, date_str |-> <<>>, topic |-> <<>>]]
    /\ PipeIdle /\ SumIdle /\ ExIdle /\ RunIdle

\* the renderer names the artifact
EncodeName ==
    /\ nmRet.step = "start"
    /\ nmRet' = [nmRet EXCEPT !.step = "named",
                              !.name = papers_file_name(nmIn.topic, Clocks[nmIn.clock])]
    /\ UNCHANGED nmIn
    /\ UNCHANGED <<pipeVars, sumVars, exVars, runVars>>

\* the catalog decodes the name
DecodeName ==
    /\ nmRet.step = "named"
    /\ nmRet' = [nmRet EXCEPT !.step = "decoded", !.decoded = decode_name(nmRet.name)]
    /\ UNCHANGED nmIn
    /\ UNCHANGED <<pipeVars, sumVars, exVars, runVars>>

NmNext == EncodeName \/ DecodeName
SpecName == NmInit /\ [][NmNext]_vars

(***************************************************************************)
(* Specification Spec: the pipeline.  The configuration is loaded when the *)
(* scheduler is constructed, and the topics file is taken not to change    *)
(* between runs; then time passes, and Collect runs and Summarize runs     *)
(* follow one another, at most MaxRuns runs in all.                        *)
(***************************************************************************)
MaxRuns == 3

\* A <dd> block whose title and abstract themselves hold the words
\* "Authors:" and "Subjects:".
DdLabelled ==
    [subjects |-> << <<"Subjects:">>, <<"M", "L">> >>,
     title    |-> << <<"Title:">>, <<"Authors:", " ", "T">> >>,
     authors  |-> << <<"Authors:">>, <<"B">> >>,
     abstract |-> << <<"Subjects:", " ", "a", ".">> >>]

PageOne      == Page(<<DtLinked>>, <<DdML>>)
PageTwo      == Page(<<DtLinked, DtLinked>>, <<DdAI, DdMlLower>>)
PageLabelled == Page(<<DtLinked>>, <<DdLabelled>>)
PipePages    == {PageOne, PageTwo, PageLabelled}

PipeTopicLists ==
    {<<TopicML>>, <<TopicML, TopicML>>, <<TopicQ, TopicAi>>}

\* topics.txt and arxiv_config.json as the scheduler finds them
PipeConfigs ==
    [topics : PipeTopicLists, topics_readable : {TRUE},
     max_papers_per_topic : {1, MaxCap}, use_ai_summaries : BOOLEAN]

\* what the listing request of a run can meet, the site serving pages
FetchOutcomes(pages) ==
    {FetchOk(p) : p \in pages} \cup UNION {FetchFailures(p) : p \in pages}

\* the delegated capability as a run meets it
PipeAiEnvs ==
    {NoEnv,
     [available |-> TRUE, key |-> <<"k">>, outcome |-> [kind |-> "raise", content |-> None]],
     [available |-> TRUE, key |-> <<"k">>, outcome |-> [kind |-> "text", content |-> <<"s">>]]}

Fates == {"ok", "unreadable", "unwritable"}

\* what befalls each selected artifact in one run: at most one of them cannot
\* be read, or its summary cannot be written
FateMaps(ts) ==
    {[t \in ts |-> "ok"]} \cup
    {[t \in ts |-> IF t = b THEN f ELSE "ok"] : b \in ts, f \in Fates \ {"ok"}}

\* the documents of a run are all written, or none can be
BuildMaps == {[i \in 1..2 |-> b] : b \in BOOLEAN}

\* the minutes at which runs happen
PipeClocks == {1, 2, 3}

Init ==
    /\ clock = 1
    /\ papersDir = <<>>
    /\ summaryDir = <<>>
    /\ last = [op |-> "none"]
    /\ runs = 0
    /\ config \in PipeConfigs
    /\ SumIdle /\ ExIdle /\ NmIdle /\ RunIdle

\* the wall clock reaches a later minute
Tick ==
    /\ clock' \in {c \in PipeClocks : c > clock}
    /\ UNCHANGED <<papersDir, summaryDir, last, runs, config>>
    /\ UNCHANGED <<sumVars, exVars, nmVars, runVars>>

\* what a Collect run leaves behind: the directory, and the task's record
Collected(net, r) ==
    /\ papersDir' = r.dir
    /\ last' = [op |-> "collect", fetch |-> net.kind, html |-> r.detail.html,
                results |-> r.returned, seen |-> r.detail.seen,
                fetches |-> r.detail.fetches, exc |-> r.exc, crossed |-> r.crossed]

\* what a Summarize run leaves behind
Summarized(fate, r) ==
    /\ summaryDir' = r.dir
    /\ last' = [op |-> "summarize",
                all_ok |-> (\A t \in DOMAIN fate : fate[t] = "ok"),
                selected |-> r.detail.selected,
                summary_files |-> r.returned, exc |-> r.exc, crossed |-> r.crossed]

\* ArxivScheduler._scrape_task, the site serving pages: the listing request
\* gives a page or fails, and the documents are written or cannot be
CollectFrom(pages) ==
    /\ runs < MaxRuns
    /\ \E net \in FetchOutcomes(pages), build_ok \in BuildMaps :
          Collected(net, scrape_task(papersDir, config, net, Clocks[clock], build_ok))
    /\ runs' = runs + 1
    /\ UNCHANGED <<clock, summaryDir, config>>
    /\ UNCHANGED <<sumVars, exVars, nmVars, runVars>>

Collect == CollectFrom(PipePages)

\* ArxivScheduler._summary_task, one call of summarize_latest_papers
Summarize ==
    /\ runs < MaxRuns
    /\ \E ai \in PipeAiEnvs, blank \in BOOLEAN,
          fate \in FateMaps(DOMAIN topic_groups(papersDir)) :
          /\ (~config.use_ai_summaries => ai = NoEnv)
          /\ Summarized(fate,
                        summary_task(papersDir, summaryDir, config, Clocks[clock],
                                     [ai |-> ai, blank |-> blank, fate |-> fate]))
    /\ runs' = runs + 1
    /\ UNCHANGED <<clock, papersDir, config>>
    /\ UNCHANGED <<sumVars, exVars, nmVars, runVars>>

Next == Tick \/ Collect \/ Summarize
Spec == Init /\ [][Next]_vars

(***************************************************************************)
(* Specification SpecCollect: the pipeline with the summary task switched  *)
(* off (run_once(summarize=False)): time passes and Collect runs.          *)
(***************************************************************************)
CollectNext == Tick \/ Collect
SpecCollect == Init /\ [][CollectNext]_vars

(***************************************************************************)
(* Specification SpecFaults: the pipeline in a faulty environment.  The    *)
(* topics file can be empty or missing, and the listing can hold a link or *)
(* a title with an opening tag that is never closed.                       *)
(***************************************************************************)
\* <dt> block whose href holds a tag
DtTagged == [link_tag |-> TRUE, href |-> <<"/abs/", "<b>">>]

\* <dd> blocks: subjects "Q"; subjects "Q" with a tag in the title; subjects
\* "AI".  The last two hold the words "Authors:" and "Subjects:" in their
\* title and abstract.
DdQ ==
    [subjects |-> << <<"Subjects:">>, <<"Q">> >>,
     title    |-> << <<"Title:">>, <<"T">> >>,
     authors  |-> << <<"Authors:">>, <<"B">> >>,
     abstract |-> << <<"a", ".">> >>]
DdQTagged ==
    [subjects |-> << <<"Subjects:">>, <<"Q">> >>,
     title    |-> << <<"Title:">>, <<"Authors:", " ", "<b>">> >>,
     authors  |-> << <<"Authors:">>, <<"B">> >>,
     abstract |-> << <<"Subjects:", " ", "a", ".">> >>]
DdAiLabelled ==
    [subjects |-> << <<"Subjects:">>, <<"A", "I">> >>,
     title    |-> << <<"Title:">>, <<"Authors:", " ", "T">> >>,
     authors  |-> << <<"Authors:">>, <<"B">> >>,
     abstract |-> << <<"Subjects:", " ", "a", ".">> >>]

PageTaggedLink  == Page(<<DtTagged, DtLinked>>, <<DdQ, DdAI>>)
PageTaggedTitle == Page(<<DtLinked, DtLinked>>, <<DdQTagged, DdAiLabelled>>)
FaultPages      == {PageTaggedLink, PageTaggedTitle, PageTwo}

FaultTopicLists == {<<>>, <<TopicQ, TopicAi>>, <<TopicML>>}

\* topics.txt present with these topics, or missing
FaultConfigs ==
    [topics : FaultTopicLists, topics_readable : {TRUE},
     max_papers_per_topic : {MaxCap}, use_ai_summaries : {FALSE}]
    \cup
    [topics : {<<>>}, topics_readable : {FALSE},
     max_papers_per_topic : {MaxCap}, use_ai_summaries : {FALSE}]

FaultInit ==
    /\ clock = 1
    /\ papersDir = <<>>
    /\ summaryDir = <<>>
    /\ last = [op |-> "none"]
    /\ runs = 0
    /\ config \in FaultConfigs
    /\ SumIdle /\ ExIdle /\ NmIdle /\ RunIdle

CollectFaulty == CollectFrom(FaultPages)

FaultNext == Tick \/ CollectFaulty \/ Summarize
SpecFaults == FaultInit /\ [][FaultNext]_vars

(***************************************************************************)
(* Specification SpecMarkup: the pipeline on listings whose links and      *)
(* titles hold an ampersand, which the layout engine takes as it comes.    *)
(***************************************************************************)
DtAmp == [link_tag |-> TRUE, href |-> <<"/abs/", "1", "&", "v">>]

DdQAmp ==
    [subjects |-> << <<"Subjects:">>, <<"Q">> >>,
     title    |-> << <<"Title:">>, <<"R", "&", "D", " ", "Authors:", " ", "T">> >>,
     authors  |-> << <<"Authors:">>, <<"B">> >>,
     abstract |-> << <<"Subjects:", " ", "a", ".">> >>]

PageAmpLink  == Page(<<DtAmp, DtLinked>>, <<DdQ, DdAI>>)
PageAmpTitle == Page(<<DtLinked, DtLinked>>, <<DdQAmp, DdAiLabelled>>)
MarkupPages  == {PageAmpLink, PageAmpTitle, PageTwo}

MarkupInit ==
    /\ clock = 1
    /\ papersDir = <<>>
    /\ summaryDir = <<>>
    /\ last = [op |-> "none"]
    /\ runs = 0
    /\ config \in [topics : FaultTopicLists, topics_readable : {TRUE},
                    max_papers_per_topic : {MaxCap}, use_ai_summaries : {FALSE}]
    /\ SumIdle /\ ExIdle /\ NmIdle /\ RunIdle

CollectMarkup == CollectFrom(MarkupPages)

MarkupNext == Tick \/ CollectMarkup \/ Summarize
SpecMarkup == MarkupInit /\ [][MarkupNext]_vars

(***************************************************************************)
(* Specification SpecConfig: _load_config on a configuration file that is  *)
(* absent, corrupt, no JSON object, or a JSON object over some of the keys *)
(* CfgKeys.                                                                *)
(***************************************************************************)
CfgKeys == {"use_ai_summaries", "max_papers_per_topic", "log_level", "extra"}

\* the values a file gives a key: well-typed ones and ill-typed ones
CfgValues(k) ==
    CASE k = "use_ai_summaries"     -> {JBool(TRUE), JBool(FALSE)}
      [] k = "max_papers_per_topic" -> {JInt(MaxCap), JStr("ten")}
      [] k = "log_level"            -> {JStr("DEBUG"), JStr("VERBOSE")}
      [] OTHER                      -> {JStr("x")}

ConfigObjects ==
    {f \in UNION {[K -> UNION {CfgValues(k) : k \in CfgKeys}] : K \in SUBSET CfgKeys} :
        \A k \in DOMAIN f : f[k] \in CfgValues(k)}

ConfigFiles ==
    {AbsentFile, CorruptFile, ArrayFile} \cup {ObjectFile(f) : f \in ConfigObjects}

CfgInit ==
    /\ cfgFile \in ConfigFiles
    /\ cfgRet = [called |-> FALSE]
    /\ CliIdle /\ SchedIdle
    /\ PipeIdle /\ SumIdle /\ ExIdle /\ NmIdle

\* what a call of _load_config leaves behind
ConfigLoaded(write_ok, r) ==
    /\ cfgFile' = r.file
    /\ cfgRet' = [called |-> TRUE, config |-> r.config,
                  before |-> cfgFile, write_ok |-> write_ok]

\* one call of _load_config; the file can be written, or it cannot
LoadConfigCall ==
    /\ ~cfgRet.called
    /\ \E write_ok \in BOOLEAN : ConfigLoaded(write_ok, load_config(cfgFile, write_ok))
    /\ UNCHANGED <<cli, sched>>
    /\ UNCHANGED <<pipeVars, sumVars, exVars, nmVars>>

CfgNext == LoadConfigCall
SpecConfig == CfgInit /\ [][CfgNext]_vars

(***************************************************************************)
(* Specification SpecCli: the command line, python -m arxiv.  Each action  *)
(* is one invocation of main() from its arguments to its exit: the         *)
(* scheduler is constructed (configuration, logging), then run_once runs   *)
(* the one task of the subcommand.                                         *)
(***************************************************************************)
\* the names getattr(logging, name) gives a level for
LoggingLevelNames ==
    {"CRITICAL", "FATAL", "ERROR", "WARNING", "WARN", "INFO", "DEBUG", "NOTSET"}

\* ArxivScheduler._setup_logging (scheduler.py:91-94): the exception that
\* leaves it, "none" when it returns.  getattr wants a name, and the logging
\* module has no attribute of a name that is no level.
setup_logging(cfg) ==
    IF cfg["log_level"].type # "str" THEN "TypeError"
    ELSE IF cfg["log_level"].s \in LoggingLevelNames THEN "none"
    ELSE "AttributeError"

\* Python's truth value of a JSON value
truthy(v) ==
    CASE v.type = "bool" -> v.b
      [] v.type = "int"  -> v.n # 0
      [] v.type = "str"  -> v.s # ""
      [] OTHER           -> FALSE

\* The cap as the extractor's loop meets it (scraper.py:116-127): a number
\* stops the loop at that many records; comparing len(papers) with a value
\* that is no number raises TypeError right after the first record was
\* appended, and the handler of _parse_paper_data returns that one record.
effective_cap(v) ==
    CASE v.type = "int"  -> v.n
      [] v.type = "bool" -> (IF v.b THEN 1 ELSE 0)
      [] OTHER           -> 1

\* what the tasks read from self.config (scheduler.py:120, 148; __main__.py:70-71)
task_config(files, cfg, use_ai) ==
    [topics |-> files.topics, topics_readable |-> files.topics_readable,
     max_papers_per_topic |-> effective_cap(cfg["max_papers_per_topic"]),
     use_ai_summaries |-> use_ai \/ truthy(cfg["use_ai_summaries"])]

\* the configuration files an invocation can find
CliConfigFiles ==
    {AbsentFile, CorruptFile,
     ObjectFile([k \in {"log_level"} |-> JStr("VERBOSE")]),
     ObjectFile([k \in {"log_level", "max_papers_per_topic"} |->
                    IF k = "log_level" THEN JStr("DEBUG") ELSE JStr("ten")]),
     ObjectFile([k \in {"use_ai_summaries", "max_papers_per_topic"} |->
                    IF k = "use_ai_summaries" THEN JBool(TRUE) ELSE JInt(MaxCap)])}

CliPages == {PageTaggedLink, PageTwo}

CliTopicFiles ==
    {[topics |-> <<TopicQ, TopicAi>>, topics_readable |-> TRUE,
      max_papers_per_topic |-> DefaultMaxPapers, use_ai_summaries |-> FALSE],
     [topics |-> <<>>, topics_readable |-> FALSE,
      max_papers_per_topic |-> DefaultMaxPapers, use_ai_summaries |-> FALSE]}

CliInit ==
    /\ clock = 1
    /\ papersDir = <<>>
    /\ summaryDir = <<>>
    /\ last = [op |-> "none"]
    /\ runs = 0
    /\ config \in CliTopicFiles
    /\ cfgFile \in CliConfigFiles
    /\ cfgRet = [called |-> FALSE]
    /\ CliIdle /\ SchedIdle
    /\ SumIdle /\ ExIdle /\ NmIdle

\* main() left by return (status "exit 0", "exit 1") or by an exception
\* that nothing caught (status "uncaught")
Exited(command, use_ai, status, exc) ==
    cli' = [command |-> command, use_ai |-> use_ai, status |-> status, exc |-> exc]

\* __main__.py:51-53: no subcommand; the scheduler is not constructed
MainNoCommand ==
    /\ runs < MaxRuns
    /\ runs' = runs + 1
    /\ Exited("none", FALSE, "exit 1", "none")
    /\ UNCHANGED <<clock, papersDir, summaryDir, last, config>>
    /\ UNCHANGED <<cfgFile, cfgRet, sched>>
    /\ UNCHANGED <<sumVars, exVars, nmVars>>

\* __main__.py:56-63: ArxivScheduler(...) raised in _setup_logging
ConstructionFailed(command, use_ai, exc) ==
    /\ Exited(command, use_ai, "uncaught", exc)
    /\ UNCHANGED <<papersDir, summaryDir, last, config>>

\* __main__.py:66-67, 76: run_once(scrape=True, summarize=False), return 0
RanScrape(cfg, net, r) ==
    /\ config' = cfg
    /\ Collected(net, r)
    /\ Exited("scrape", FALSE, IF r.crossed THEN "uncaught" ELSE "exit 0", r.exc)
    /\ UNCHANGED summaryDir

\* python -m arxiv scrape
MainScrape ==
    /\ runs < MaxRuns
    /\ runs' = runs + 1
    /\ \E write_ok \in BOOLEAN, net \in FetchOutcomes(CliPages), build_ok \in BuildMaps :
          /\ ConfigLoaded(write_ok, load_config(cfgFile, write_ok))
          /\ IF setup_logging(load_config(cfgFile, write_ok).config) # "none"
             THEN ConstructionFailed("scrape", FALSE,
                                     setup_logging(load_config(cfgFile, write_ok).config))
             ELSE RanScrape(task_config(config, load_config(cfgFile, write_ok).config, FALSE),
                            net,
                            scrape_task(papersDir,
                                        task_config(config,
                                                    load_config(cfgFile, write_ok).config,
                                                    FALSE),
                                        net, Clocks[clock], build_ok))
    /\ UNCHANGED <<clock, sched>>
    /\ UNCHANGED <<sumVars, exVars, nmVars>>

\* __main__.py:68-72, 76: run_once(scrape=False, summarize=True), return 0
RanSummarize(cfg, use_ai, fate, r) ==
    /\ config' = cfg
    /\ Summarized(fate, r)
    /\ Exited("summarize", use_ai, IF r.crossed THEN "uncaught" ELSE "exit 0", r.exc)
    /\ UNCHANGED papersDir

\* python -m arxiv summarize [--use-ai]
MainSummarize ==
    /\ runs < MaxRuns
    /\ runs' = runs + 1
    /\ \E write_ok \in BOOLEAN, use_ai \in BOOLEAN, ai \in PipeAiEnvs,
          fate \in FateMaps(DOMAIN topic_groups(papersDir)) :
          /\ ConfigLoaded(write_ok, load_config(cfgFile, write_ok))
          /\ IF setup_logging(load_config(cfgFile, write_ok).config) # "none"
             THEN /\ ai = NoEnv
                  /\ ConstructionFailed("summarize", use_ai,
                                        setup_logging(load_config(cfgFile, write_ok).config))
             ELSE /\ (~task_config(config, load_config(cfgFile, write_ok).config,
                                   use_ai).use_ai_summaries => ai = NoEnv)
                  /\ RanSummarize(task_config(config, load_config(cfgFile, write_ok).config,
                                              use_ai),
                                  use_ai, fate,
                                  summary_task(papersDir, summaryDir,
                                               task_config(config,
                                                           load_config(cfgFile, write_ok).config,
                                                           use_ai),
                                               Clocks[clock],
                                               [ai |-> ai, blank |-> FALSE, fate |-> fate]))
    /\ UNCHANGED <<clock, sched>>
    /\ UNCHANGED <<sumVars, exVars, nmVars>>

CliNext == MainNoCommand \/ MainScrape \/ MainSummarize
SpecCli == CliInit /\ [][CliNext]_vars

(***************************************************************************)
(* Specification SpecSched: the scheduler loop, run_scheduler.  The two    *)
(* jobs are registered with schedule.every().day.at(...); the loop polls   *)
(* run_pending and sleeps.  The loop is started before the first minute    *)
(* the model knows, and the polls shown are those of the minutes of        *)
(* PipeClocks: a poll can come late, when a task or the machine was slow.  *)
(***************************************************************************)
T0900 == [H |-> 9, M |-> 0]
T1000 == [H |-> 10, M |-> 0]

\* the index after the last minute the model knows: a run beyond the horizon
NoRun == Len(Clocks) + 1

\* schedule's Job.next_run for "every day at `at`", seen after minute `after`:
\* the first later minute of that time of day
next_run(at, after) ==
    IF \E i \in 1..Len(Clocks) : i > after /\ Clocks[i].H = at.H /\ Clocks[i].M = at.M
    THEN CHOOSE i \in 1..Len(Clocks) :
            /\ i > after /\ Clocks[i].H = at.H /\ Clocks[i].M = at.M
            /\ \A j \in 1..Len(Clocks) :
                  (j > after /\ Clocks[j].H = at.H /\ Clocks[j].M = at.M) => i <= j
    ELSE NoRun

\* schedule.run_pending: the jobs whose next_run has come, sorted by
\* next_run; of two jobs with the same next_run the one registered first
\* (the scrape job, scheduler.py:181) comes first
pending_jobs(sc, now) ==
    IF sc.next_scrape <= now /\ sc.next_summary <= now
    THEN IF sc.next_summary < sc.next_scrape THEN <<"summary", "scrape">>
         ELSE <<"scrape", "summary">>
    ELSE IF sc.next_scrape <= now THEN <<"scrape">>
    ELSE IF sc.next_summary <= now THEN <<"summary">>
    ELSE <<>>

\* a poll before its first job
poll_start(papers, summaries) ==
    [papers |-> papers, summaries |-> summaries, invoked |-> <<>>,
     excs |-> <<>>, raised |-> FALSE]

\* a poll after a job that left the outcome r
job_done(st, job, papers, summaries, r) ==
    [papers |-> papers, summaries |-> summaries,
     invoked |-> Append(st.invoked, job), excs |-> Append(st.excs, r.exc),
     raised |-> r.crossed]

\* schedule runs one job: the task is called; an exception that leaves the
\* task leaves run_pending too
run_job(st, job, cfg, c, net, build_ok) ==
    IF job = "scrape"
    THEN job_done(st, job,
                  scrape_task(st.papers, cfg, net, c, build_ok).dir, st.summaries,
                  scrape_task(st.papers, cfg, net, c, build_ok))
    ELSE job_done(st, job, st.papers,
                  summary_task(st.papers, st.summaries, cfg, c,
                               [ai |-> NoEnv, blank |-> FALSE,
                                fate |-> [t \in DOMAIN topic_groups(st.papers) |-> "ok"]]).dir,
                  summary_task(st.papers, st.summaries, cfg, c,
                               [ai |-> NoEnv, blank |-> FALSE,
                                fate |-> [t \in DOMAIN topic_groups(st.papers) |-> "ok"]]))

RECURSIVE run_pending(_, _, _, _, _, _)
run_pending(jobs, st, cfg, c, net, build_ok) ==
    IF jobs = <<>> \/ st.raised THEN st
    ELSE run_pending(Tail(jobs), run_job(st, Head(jobs), cfg, c, net, build_ok),
                     cfg, c, net, build_ok)

IsInvoked(st, job) == \E i \in 1..Len(st.invoked) : st.invoked[i] = job

\* topics.txt present, or missing
SchedConfigs ==
    {[topics |-> <<TopicQ, TopicAi>>, topics_readable |-> TRUE,
      max_papers_per_topic |-> MaxCap, use_ai_summaries |-> FALSE],
     [topics |-> <<>>, topics_readable |-> FALSE,
      max_papers_per_topic |-> MaxCap, use_ai_summaries |-> FALSE]}

SchedInit ==
    /\ clock = 1
    /\ papersDir = <<>>
    /\ summaryDir = <<>>
    /\ last = [op |-> "none"]
    /\ runs = 0
    /\ config \in SchedConfigs
    /\ sched \in {[state |-> "idle", scrape_schedule |-> T0900, summary_schedule |-> t] :
                    t \in {T0900, T1000}}
    /\ CfgIdle /\ CliIdle
    /\ SumIdle /\ ExIdle /\ NmIdle

\* run_scheduler up to its loop (scheduler.py:190-192): schedule_tasks
StartScheduler ==
    /\ sched.state = "idle"
    /\ sched' = [state |-> "running",
                 scrape_schedule |-> sched.scrape_schedule,
                 summary_schedule |-> sched.summary_schedule,
                 next_scrape |-> next_run(sched.scrape_schedule, 0),
                 next_summary |-> next_run(sched.summary_schedule, 0),
                 polled |-> 0, due |-> <<>>, invoked |-> <<>>, excs |-> <<>>]
    /\ UNCHANGED <<pipeVars, cfgFile, cfgRet, cli>>
    /\ UNCHANGED <<sumVars, exVars, nmVars>>

\* what a poll leaves behind: the directories, the jobs run rescheduled,
\* and the loop either going on or left through its handler
\* (scheduler.py:199-200)
Polled(due, st) ==
    /\ papersDir' = st.papers
    /\ summaryDir' = st.summaries
    /\ sched' = [sched EXCEPT
                    !.state = IF st.raised THEN "stopped" ELSE "running",
                    !.next_scrape = IF IsInvoked(st, "scrape")
                                    THEN next_run(sched.scrape_schedule, clock) ELSE @,
                    !.next_summary = IF IsInvoked(st, "summary")
                                     THEN next_run(sched.summary_schedule, clock) ELSE @,
                    !.polled = clock, !.due = due,
                    !.invoked = st.invoked, !.excs = st.excs]

\* one turn of the loop at the minute of the clock: schedule.run_pending()
RunPending ==
    /\ sched.state = "running"
    /\ sched.polled < clock
    /\ \E net \in FetchOutcomes(FaultPages), build_ok \in BuildMaps :
          Polled(pending_jobs(sched, clock),
                 run_pending(pending_jobs(sched, clock), poll_start(papersDir, summaryDir),
                             config, Clocks[clock], net, build_ok))
    /\ UNCHANGED <<clock, last, runs, config>>
    /\ UNCHANGED <<cfgFile, cfgRet, cli>>
    /\ UNCHANGED <<sumVars, exVars, nmVars>>

\* time.sleep(60), and whatever else holds the loop up
Sleep ==
    /\ sched.state = "running"
    /\ sched.polled = clock
    /\ Tick

\* Ctrl+C (scheduler.py:197-198)
Interrupt ==
    /\ sched.state = "running"
    /\ sched' = [sched EXCEPT !.state = "interrupted"]
    /\ UNCHANGED <<pipeVars, cfgFile, cfgRet, cli>>
    /\ UNCHANGED <<sumVars, exVars, nmVars>>

SchedNext == StartScheduler \/ RunPending \/ Sleep \/ Interrupt
SpecSched == SchedInit /\ [][SchedNext]_vars

(***************************************************************************)
(* Specification SpecJobs: the scheduler loop with the jobs of a poll seen *)
(* as they begin and end.  A job that has begun and not yet ended is in    *)
(* progress; its task acts on the directories when it ends.                *)
(***************************************************************************)
\* A runner that hands each job to a thread of its own and goes on.
job_may_begin_unjoined(active) == TRUE

\* scheduler.py:181, 186  the jobs are the task methods themselves, and
\* run_pending calls each in the loop's own thread (scheduler.py:195): the
\* next job begins when the call of the one before has returned
job_may_begin(active) == active = {}

\* run_scheduler up to its loop (scheduler.py:190-192): schedule_tasks
JobsScheduled ==
    /\ sched.state = "idle"
    /\ sched' = [state |-> "waiting",
                 scrape_schedule |-> sched.scrape_schedule,
                 summary_schedule |-> sched.summary_schedule,
                 next_scrape |-> next_run(sched.scrape_schedule, 0),
                 next_summary |-> next_run(sched.summary_schedule, 0),
                 polled |-> 0, queue |-> <<>>, active |-> {}]
    /\ UNCHANGED <<pipeVars, cfgFile, cfgRet, cli>>
    /\ UNCHANGED <<sumVars, exVars, nmVars>>

\* schedule.run_pending() is entered: the jobs that are due, in their order
PollBegin ==
    /\ sched.state = "waiting"
    /\ sched.polled < clock
    /\ sched' = [sched EXCEPT !.state = "polling", !.polled = clock,
                              !.queue = pending_jobs(sched, clock)]
    /\ UNCHANGED <<pipeVars, cfgFile, cfgRet, cli>>
    /\ UNCHANGED <<sumVars, exVars, nmVars>>

\* the next job of the poll is called
JobBegin ==
    /\ sched.state = "polling"
    /\ sched.queue # <<>>
    /\ job_may_begin(sched.active)
    /\ sched' = [sched EXCEPT !.queue = Tail(@),
                              !.active = @ \cup {Head(sched.queue)}]
    /\ UNCHANGED <<pipeVars, cfgFile, cfgRet, cli>>
    /\ UNCHANGED <<sumVars, exVars, nmVars>>

\* what the end of a job leaves behind: the directories, the job
\* rescheduled, and the poll going on or the loop left through its handler
JobEnded(job, st) ==
    /\ papersDir' = st.papers
    /\ summaryDir' = st.summaries
    /\ sched' = [sched EXCEPT
                    !.state = IF st.raised THEN "stopped" ELSE @,
                    !.queue = IF st.raised THEN <<>> ELSE @,
                    !.active = @ \ {job},
                    !.next_scrape = IF job = "scrape"
                                    THEN next_run(sched.scrape_schedule, clock) ELSE @,
                    !.next_summary = IF job = "summary"
                                     THEN next_run(sched.summary_schedule, clock) ELSE @]

\* the call of a job in progress returns
JobEnd ==
    /\ sched.state = "polling"
    /\ \E job \in sched.active, net \in FetchOutcomes(FaultPages), build_ok \in BuildMaps :
          JobEnded(job, run_job(poll_start(papersDir, summaryDir), job, config,
                                Clocks[clock], net, build_ok))
    /\ UNCHANGED <<clock, last, runs, config>>
    /\ UNCHANGED <<cfgFile, cfgRet, cli>>
    /\ UNCHANGED <<sumVars, exVars, nmVars>>

\* schedule.run_pending() returns
PollEnd ==
    /\ sched.state = "polling"
    /\ sched.queue = <<>>
    /\ sched.active = {}
    /\ sched' = [sched EXCEPT !.state = "waiting"]
    /\ UNCHANGED <<pipeVars, cfgFile, cfgRet, cli>>
    /\ UNCHANGED <<sumVars, exVars, nmVars>>

\* time.sleep(60), and whatever else holds the loop up
SleepOn ==
    /\ sched.state = "waiting"
    /\ sched.polled = clock
    /\ Tick

JobsNext == JobsScheduled \/ PollBegin \/ JobBegin \/ JobEnd \/ PollEnd \/ SleepOn
SpecJobs == SchedInit /\ [][JobsNext]_vars

(***************************************************************************)
(* Specification SpecCatalog: the catalog of summarize_latest_papers on a  *)
(* directory of one or two collection artifacts, created for the topics    *)
(* CatalogTopics at the same time of day on the days the model knows.      *)
(***************************************************************************)
\* the minutes the model knows that share the time of day of the first
CatalogClocks ==
    {i \in 1..Len(Clocks) : Clocks[i].H = Clocks[1].H /\ Clocks[i].M = Clocks[1].M}

CatalogTopics == {TopicQ, TopicAi, TopicML}

CatalogNames ==
    {papers_file_name(t, Clocks[i]) : t \in CatalogTopics, i \in CatalogClocks}

CatalogDirs ==
    {[n \in S |-> <<>>] :
        S \in {X \in SUBSET CatalogNames : Cardinality(X) \in {1, 2}}}

CatInit ==
    /\ clock = 1
    /\ papersDir \in CatalogDirs
    /\ summaryDir = <<>>
    /\ last = [op |-> "none"]
    /\ runs = 0
    /\ config = [topics |-> <<>>, topics_readable |-> FALSE,
                 max_papers_per_topic |-> 0, use_ai_summaries |-> FALSE]
    /\ SumIdle /\ ExIdle /\ NmIdle /\ RunIdle

\* summarizer.py:309-312: the latest file of every group
latest_files(groups) == {latest_file(groups[t]) : t \in DOMAIN groups}

\* summarizer.py:286-312: the directory is listed, grouped, and the latest
\* file of every group is selected
CatalogSelect ==
    /\ last.op = "none"
    /\ last' = [op |-> "catalog", selected |-> latest_files(topic_groups(papersDir))]
    /\ UNCHANGED <<clock, papersDir, summaryDir, runs, config>>
    /\ UNCHANGED <<sumVars, exVars, nmVars, runVars>>

CatNext == CatalogSelect
SpecCatalog == CatInit /\ [][CatNext]_vars

(***************************************************************************)
(* Claims about the summary generator (checked under SpecSummary)          *)
(***************************************************************************)
SumAbstract == Get(sumPaper, "abstract", <<>>)
FewerThanThreeSentences == Len(Split(SumAbstract, SentenceSep)) < 3

\* C9 as stated: for every record whose abstract has fewer than three
\* sentences (pieces when split on ". "), whether or not the abstract ends
\* with a period, the extractive summary equals the abstract itself, up to
\* surrounding whitespace, and no error is raised.
C9_SummaryEqualsAbstract ==
    (sumRet.op = "simple" /\ "abstract" \in DOMAIN sumPaper /\ FewerThanThreeSentences)
        => /\ ~sumRet.raised
           /\ Strip(sumRet.value) = Strip(SumAbstract)

\* C9 amended: for every record whose abstract has fewer than three
\* sentences, the extractive summary is the abstract itself, untrimmed, when
\* the abstract ends with a period, and the abstract followed by one "."
\* when it does not; no error is raised.
C9_SummaryIsAbstractPlusPeriod ==
    (sumRet.op = "simple" /\ FewerThanThreeSentences)
        => /\ ~sumRet.raised
           /\ sumRet.value =
                IF EndsWith(SumAbstract, Period) THEN SumAbstract
                ELSE SumAbstract \o Period

\* C9 witness: a two-sentence abstract without a final period was summarised.
C9_Witness ==
    /\ sumRet.op = "simple"
    /\ Len(Split(SumAbstract, SentenceSep)) = 2
    /\ ~EndsWith(SumAbstract, Period)
    /\ sumRet.value = SumAbstract \o Period

\* C10: the delegated summary never raises to its caller, and whenever the
\* capability is not importable, no API key is configured, or the remote
\* call fails (an exception, or a response without a choice or without
\* content), it returns exactly the extractive summary of the same record.
C10_DelegatedNeverRaises ==
    sumRet.op = "ai"
        => /\ ~sumRet.raised
           /\ (\/ ~sumEnv.available
               \/ sumEnv.key \in {None, <<>>}
               \/ sumEnv.outcome.kind # "text")
                 => sumRet.value = generate_simple_summary(sumPaper)

\* C10 witness: the capability was available and configured, the response
\* was malformed, and the caller got the extractive summary of a real abstract.
C10_Witness ==
    /\ sumRet.op = "ai"
    /\ sumEnv.available
    /\ sumEnv.key = <<"k">>
    /\ sumEnv.outcome.kind = "no_choices"
    /\ Len(SumAbstract) > 1
    /\ ~sumRet.raised
    /\ sumRet.value = generate_simple_summary(sumPaper)

\* Python: s.startswith(prefix)
StartsWith(s, prefix) == Len(prefix) <= Len(s) /\ MatchesAt(s, 1, prefix)

\* The period the generator adds to the abstract A, and the summary without it.
ExtraPeriod(A) == IF EndsWith(A, Period) THEN <<>> ELSE Period
SummaryBody(summary, A) == Slice(summary, 1, Len(summary) - Len(ExtraPeriod(A)))

\* C20: for every abstract A, the extractive summary ends with an extra "."
\* exactly when A does not end with "."; without that period, its pieces
\* (split on ". ") are the first min(3, k) of the k pieces of A, and it is
\* those pieces joined with ". "; the summary is a prefix of A followed by
\* ".", and nothing is raised.
C20_ExtractiveDefinition ==
    sumRet.op = "simple" =>
        /\ ~sumRet.raised
        /\ EndsWith(sumRet.value, ExtraPeriod(SumAbstract))
        /\ Split(SummaryBody(sumRet.value, SumAbstract), SentenceSep)
             = [j \in 1..Min(3, Len(Split(SumAbstract, SentenceSep))) |->
                   Split(SumAbstract, SentenceSep)[j]]
        /\ StartsWith(SumAbstract, SummaryBody(sumRet.value, SumAbstract))
        /\ StartsWith(SumAbstract \o Period, sumRet.value)

\* C20 witness: an abstract of more than three pieces that does not end
\* with a period was summarised, and the summary is shorter than it.
C20_Witness ==
    /\ sumRet.op = "simple"
    /\ Len(Split(SumAbstract, SentenceSep)) > 3
    /\ ~EndsWith(SumAbstract, Period)
    /\ Len(sumRet.value) < Len(SumAbstract)
    /\ EndsWith(sumRet.value, Period)

(***************************************************************************)
(* Claims about the entry extractor (checked under SpecExtract)            *)
(***************************************************************************)
\* The (entry, detail) pairs of a page whose subjects field contains the
\* topic case-insensitively.
MatchingPairs(html, topic) ==
    {k \in 1..Min(Len(html.dts), Len(html.dds)) :
        Contains(Lower(subjects_text_of(html.dds[k])), Lower(topic))}

\* C4 as stated: for any non-negative cap N, Extract never returns more than
\* N records, and returns exactly N when more than N pairs match the topic.
C4_CapBoundsExtraction ==
    exRet.called =>
        /\ Len(exRet.papers) <= exIn.max_papers
        /\ Cardinality(MatchingPairs(exIn.html, exIn.topic)) > exIn.max_papers
             => Len(exRet.papers) = exIn.max_papers

\* The j-th least element of a set of numbers.
Kth(S, j) == CHOOSE x \in S : Cardinality({y \in S : y < x}) = j - 1

\* The records of the pairs ks of a page, taken in listing order.
RecordsOfPairs(html, ks, n) ==
    [j \in 1..n |-> paper_of(html.dts[Kth(ks, j)], html.dds[Kth(ks, j)])]

\* C18 as stated: Extract returns, in listing order, exactly the records of
\* the first maxCount pairs (all of them when there are fewer) whose subjects
\* contain the topic case-insensitively, the k-th entry block paired with
\* the k-th detail block.
C18_FirstMatchingPairs ==
    exRet.called =>
        exRet.papers =
            RecordsOfPairs(exIn.html, MatchingPairs(exIn.html, exIn.topic),
                           Min(exIn.max_papers,
                               Cardinality(MatchingPairs(exIn.html, exIn.topic))))

\* The text of a field's element, None when the element is not found.
ElementText(element, label) ==
    IF element = NoElement THEN None
    ELSE RemoveSym(get_text_strip(element), label)

\* The field of a record is the text of its element, or the placeholder
\* when the element is not found or has no text.
FieldOrPlaceholder(value, text, placeholder) ==
    value = IF text = None \/ text = <<>> THEN placeholder ELSE text

\* C22 as stated (checked under SpecFields): every entry that passes the
\* topic filter gives a record, whatever fields of it are not located; the
\* record's title and abstract are never empty; and each of title, authors
\* and abstract is the text of its element, or its "not found" placeholder
\* when the element is not located or has no text.
C22_FieldsNeverEmpty ==
    exRet.called =>
        /\ Len(exRet.papers) =
              Cardinality({k \in 1..Len(exIn.html.dds) :
                              topic_matches(exIn.topic, subjects_text_of(exIn.html.dds[k]))})
        /\ \A i \in 1..Len(exRet.papers) :
              /\ exRet.papers[i].title # <<>>
              /\ exRet.papers[i].abstract # <<>>
        /\ (Len(exRet.papers) = Len(exIn.html.dds)) =>
              \A i \in 1..Len(exRet.papers) :
                  /\ FieldOrPlaceholder(exRet.papers[i].title,
                                        ElementText(exIn.html.dds[i].title, "Title:"),
                                        TitleNotFound)
                  /\ FieldOrPlaceholder(exRet.papers[i].authors,
                                        ElementText(exIn.html.dds[i].authors, "Authors:"),
                                        AuthorsNotFound)
                  /\ FieldOrPlaceholder(exRet.papers[i].abstract,
                                        ElementText(exIn.html.dds[i].abstract, "<none>"),
                                        AbstractNotFound)

(***************************************************************************)
(* Claims about artifact names (checked under SpecName)                    *)
(***************************************************************************)
\* Words separated by single spaces: no leading, trailing or double space.
SingleSpaced(t) ==
    /\ t # <<>>
    /\ t[1] # " "
    /\ t[Len(t)] # " "
    /\ \A i \in 1..(Len(t) - 1) : ~(t[i] = " " /\ t[i + 1] = " ")

\* C7 as stated: for a topic T of single-spaced words and any creation
\* minute, the collection artifact is named
\* arxiv_papers_<ddMMyyyy>_<HHmm>_<T with underscores>.pdf, and the catalog
\* decodes that name to the timestamp ddMMyyyy_HHmm and the topic T.
C7_NameRoundTrip ==
    (nmRet.step = "decoded" /\ SingleSpaced(nmIn.topic)) =>
        /\ nmRet.name = <<"arxiv_papers_">> \o strftime_name(Clocks[nmIn.clock])
                            \o <<"_">> \o ReplaceSym(nmIn.topic, " ", "_") \o <<".pdf">>
        /\ nmRet.decoded.matched
        /\ nmRet.decoded.date_str = strftime_name(Clocks[nmIn.clock])
        /\ nmRet.decoded.topic = nmIn.topic

(***************************************************************************)
(* Claims about the pipeline (checked under Spec and SpecCollect)          *)
(***************************************************************************)
\* What a collection artifact shows: the topic of its heading, the number of
\* its records and the text of each record's field (1 title, 2 authors,
\* 3 link, 4 subjects, 5 abstract).
ArtifactTopic(doc) == SubSeq(doc[1].markup, 5, Len(doc[1].markup))
ArtifactCount(doc) == (Len(doc) - 4) \div 6
ArtifactField(doc, k, j) == plain_text(doc[4 + 6 * (k - 1) + j].markup)

\* The summary paragraphs of a summary artifact, in order.
IsSummaryText(f) == f.kind = "para" /\ f.style = "BodyText"
SummaryTexts(doc) == [k \in 1..Len(SelectSeq(doc, IsSummaryText)) |->
                         SelectSeq(doc, IsSummaryText)[k].markup]

\* A well-formed field: not empty, no line break, no markup character and
\* none of the words the re-parser anchors on.
WellFormedField(x) ==
    /\ Strip(x) # <<>>
    /\ \A i \in 1..Len(x) :
          x[i] \notin {"\n", "&", "<", ">", "Authors:", "Subjects:", "Title:"}
WellFormed(paper) ==
    /\ WellFormedField(paper.title)
    /\ WellFormedField(paper.authors)
    /\ WellFormedField(paper.subjects)
    /\ WellFormedField(paper.abstract)
    /\ paper.link # None

SameRecords(orig, back) ==
    /\ Len(back) = Len(orig)
    /\ \A k \in 1..Len(orig) :
          /\ Strip(back[k].title) = Strip(orig[k].title)
          /\ Strip(back[k].authors) = Strip(orig[k].authors)
          /\ Strip(back[k].subjects) = Strip(orig[k].subjects)

\* C1 as stated: after a Collect, for every topic with a rendered artifact
\* whose extracted records are all well-formed, re-parsing the text of that
\* artifact (however the text extractor shows the spacing between records)
\* returns as many records, in the same order, with title, authors and
\* subjects equal to the originals up to surrounding whitespace.
C1_RoundTrip ==
    last.op = "collect" =>
        \A T \in DOMAIN last.results :
            (\A k \in 1..Len(parse_paper_data(last.html, T, config.max_papers_per_topic)) :
                WellFormed(parse_paper_data(last.html, T, config.max_papers_per_topic)[k]))
            => \E blank \in BOOLEAN :
                  SameRecords(parse_paper_data(last.html, T, config.max_papers_per_topic),
                              parse_papers_from_pdf(papersDir, last.results[T], TRUE, blank))

\* The summary artifacts the last Summarize run returned for the collection
\* artifact f.
SummariesOf(f) ==
    {p \in last.summary_files : \E x \in last.selected : x.file = f /\ x.path = p}

\* C2 as stated: when Summarize runs without the delegated strategy and
\* nothing fails, every topic with exactly one collection artifact, holding
\* n >= 1 well-formed records, gets exactly one summary artifact, which
\* holds n summaries, the k-th being the extractive summary of the k-th
\* abstract.
C2_EndToEnd ==
    (last.op = "summarize" /\ ~config.use_ai_summaries /\ last.all_ok) =>
        \A f \in pdf_files(papersDir) :
            (/\ ArtifactCount(papersDir[f]) >= 1
             /\ \A k \in 1..ArtifactCount(papersDir[f]), j \in {1, 2, 4, 5} :
                   WellFormedField(ArtifactField(papersDir[f], k, j))
             /\ \A g \in pdf_files(papersDir) :
                   ArtifactTopic(papersDir[g]) = ArtifactTopic(papersDir[f]) => g = f)
            => /\ Cardinality(SummariesOf(f)) = 1
               /\ \A p \in SummariesOf(f) :
                     SummaryTexts(summaryDir[p]) =
                        [k \in 1..ArtifactCount(papersDir[f]) |->
                            generate_simple_summary(
                                [abstract |-> ArtifactField(papersDir[f], k, 5)])]

\* A re-parsed record gives back the link and the identifier of the record
\* it was rendered from.
LinkRecovered(orig, back) ==
    HasAbsMarker(orig.link) =>
        /\ back.link = orig.link
        /\ back.paper_id = LastSegment(orig.link)
LinksRecovered(orig, back) ==
    /\ \A k \in 1..Min(Len(orig), Len(back)) : LinkRecovered(orig[k], back[k])
    /\ \A k \in 1..Len(back) :
          back[k].paper_id = None
            <=> (back[k].link = None \/ ~HasAbsMarker(back[k].link))

\* C19 as stated: after a Collect, for every artifact rendered, every record
\* re-parsed from it (however the text extractor shows the spacing) has the
\* link https://arxiv.org/abs/<id> of the record it was rendered from and the
\* paper id <id>; the paper id is absent exactly when the recovered link is
\* absent or lacks the /abs/ marker.
C19_LinkAndPaperIdRecovered ==
    last.op = "collect" =>
        \A T \in DOMAIN last.results, blank \in BOOLEAN :
            LinksRecovered(parse_paper_data(last.html, T, config.max_papers_per_topic),
                           parse_papers_from_pdf(papersDir, last.results[T], TRUE, blank))

\* The files of the directory that a step created or changed.
Written(before, after) ==
    {f \in DOMAIN after : f \notin DOMAIN before \/ after[f] # before[f]}

\* C3: in every Collect run, a topic of the topic list that no (entry,
\* detail) pair of the fetched listing matches (subjects containing the topic,
\* case-insensitively) is no key of the result mapping, and no collection
\* artifact of that topic is created or rewritten by the run.
C3_NoMatchNoArtifact ==
    [][(runs' = runs + 1 /\ last'.op = "collect") =>
          \A i \in 1..Len(config.topics) :
             MatchingPairs(last'.html, config.topics[i]) = {} =>
                /\ config.topics[i] \notin DOMAIN last'.results
                /\ \A f \in Written(papersDir, papersDir') :
                      /\ ArtifactTopic(papersDir'[f]) # config.topics[i]
                      /\ f # papers_file_name(config.topics[i], Clocks[clock])]_vars

\* C3 witness: a Collect run fetched a listing with entries, none of them
\* matching the first topic of the list; the second topic got its artifact
\* and the first is absent from the result mapping.
C3_Witness ==
    /\ last.op = "collect"
    /\ config.topics = <<TopicQ, TopicAi>>
    /\ ~last.html.empty
    /\ Len(last.html.dds) >= 1
    /\ MatchingPairs(last.html, TopicQ) = {}
    /\ DOMAIN last.results = {TopicAi}
    /\ last.results[TopicAi] \in DOMAIN papersDir

\* C5 as stated: in a Summarize run, for each topic that has a collection
\* artifact in the input directory, exactly one artifact of that topic is
\* selected, and at most one summary artifact is produced for the topic.
C5_OneSelectedPerTopic ==
    last.op = "summarize" =>
        \A f \in pdf_files(papersDir) :
            /\ Cardinality({x \in last.selected :
                    ArtifactTopic(papersDir[x.file]) = ArtifactTopic(papersDir[f])}) = 1
            /\ Cardinality({x.path : x \in {y \in last.selected :
                    /\ y.path # NoPath
                    /\ ArtifactTopic(papersDir[y.file]) = ArtifactTopic(papersDir[f])}}) <= 1

\* The encoded timestamp ddmmyyyy_hhmm of a collection artifact's name.
Stamp(f) == decode_name_two_groups(f).date_str

\* C6 as stated: every artifact a Summarize run selects bears the
\* lexicographically greatest timestamp ddmmyyyy_hhmm among the artifacts
\* of its topic.
C6_LatestIsGreatestStamp ==
    last.op = "summarize" =>
        \A f \in pdf_files(papersDir), g \in pdf_files(papersDir) :
            (/\ \E x \in last.selected : x.file = g
             /\ ArtifactTopic(papersDir[f]) = ArtifactTopic(papersDir[g]))
            => \A sg \in {Stamp(g)}, sf \in {Stamp(f)} : ~StrLess(sg, sf)

\* C8 as stated: no step changes or removes an artifact file that exists;
\* a run only adds files under names not used before.
C8_ArtifactsImmutable ==
    [][/\ \A f \in DOMAIN papersDir :
             f \in DOMAIN papersDir' /\ papersDir'[f] = papersDir[f]
       /\ \A f \in DOMAIN summaryDir :
             f \in DOMAIN summaryDir' /\ summaryDir'[f] = summaryDir[f]]_vars

\* The collection artifact named file was rendered for topic t.
CollectedFor(file, t) ==
    \E i \in PipeClocks : file = papers_file_name(t, Clocks[i])

\* C24 as stated: the summary artifact produced from a collection artifact
\* that Collect rendered for topic T is named
\* arxiv_summary_<ddMMyyyy>_<HHmm>_<T with underscores>.pdf and titled with
\* exactly the topic T.
C24_TopicPreserved ==
    last.op = "summarize" =>
        \A x \in last.selected :
            x.path # NoPath =>
                \A i \in 1..Len(config.topics) :
                    CollectedFor(x.file, config.topics[i]) =>
                        /\ x.path = summary_file_name(config.topics[i], Clocks[clock])
                        /\ summaryDir[x.path][1] =
                              Paragraph(<<"ArXiv", " ", "Papers", " ", "Summary:", " ">>
                                            \o config.topics[i], "Title")

(***************************************************************************)
(* Claims about failures (checked under SpecFaults)                        *)
(***************************************************************************)
\* C11 as stated: in a Collect run that fetched a listing, a render failure
\* for one topic never aborts the run: every topic of the list is extracted
\* and rendered, in order; a topic whose render returned a path is a key of
\* the result mapping with that path, and every key of the mapping is such
\* a topic.
C11_RenderFailureIsolated ==
    (last.op = "collect" /\ config.topics_readable /\ ~last.html.empty) =>
        /\ Len(last.seen) = Len(config.topics)
        /\ \A k \in 1..Len(last.seen) :
              /\ last.seen[k].topic = config.topics[k]
              /\ last.seen[k].path # NoPath =>
                    /\ config.topics[k] \in DOMAIN last.results
                    /\ last.results[config.topics[k]] = last.seen[k].path
        /\ \A T \in DOMAIN last.results :
              \E k \in 1..Len(last.seen) :
                 last.seen[k].topic = T /\ last.seen[k].path = last.results[T]

\* C12 as stated: in a Summarize run, a failure for one topic never aborts
\* the run: every topic the catalog finds is processed, and the path of
\* every summary artifact written is returned.
C12_SummaryFailureIsolated ==
    last.op = "summarize" =>
        \A g \in DOMAIN topic_groups(papersDir) :
            \E x \in last.selected :
                /\ x.topic = g
                /\ x.path # NoPath => x.path \in last.summary_files

\* C13: in every Collect run whose listing request fails (no response, an
\* error status) or gives no content, no topic is processed: the result
\* mapping is empty, no file of the directory is created or changed, and
\* nothing is raised.
C13_FetchFailureNoTopic ==
    [][(/\ runs' = runs + 1
        /\ last'.op = "collect"
        /\ config.topics_readable
        /\ (last'.fetch # "ok" \/ last'.html.empty)) =>
          /\ last'.results = <<>>
          /\ last'.seen = <<>>
          /\ papersDir' = papersDir
          /\ last'.exc = "none"]_vars

\* C13 witness: with two topics listed and artifacts of an earlier run in
\* the directory, a Collect run met an error status and returned nothing.
C13_Witness ==
    /\ last.op = "collect"
    /\ last.fetch = "http_error"
    /\ Len(config.topics) = 2
    /\ DOMAIN papersDir # {}
    /\ last.results = <<>>
    /\ last.seen = <<>>

\* C14: a Collect run whose topics file is read makes exactly one listing
\* request, whatever the number of topics (none included), and the records
\* of every artifact it returns are those extracted for that topic from the
\* content of that one request.
C14_OneFetchPerCollect ==
    (last.op = "collect" /\ config.topics_readable) =>
        /\ last.fetches = 1
        /\ \A T \in DOMAIN last.results :
              SubSeq(papersDir[last.results[T]], 5, Len(papersDir[last.results[T]]))
                = paper_blocks(parse_paper_data(last.html, T,
                                                config.max_papers_per_topic))

\* C14 witness: a Collect run over two topics made one request and returned
\* an artifact for each of them.
C14_Witness ==
    /\ last.op = "collect"
    /\ Len(config.topics) = 2
    /\ last.fetches = 1
    /\ Cardinality(DOMAIN last.results) = 2
    /\ \A T \in DOMAIN last.results : last.results[T] \in DOMAIN papersDir

(***************************************************************************)
(* Claims about the configuration (checked under SpecConfig)               *)
(***************************************************************************)
\* The configuration returned for a file that holds a JSON object: the
\* file's keys with the file's values, the other default keys with their
\* defaults.
MergedFromFile(cfg, obj) ==
    /\ \A k \in DOMAIN obj : k \in DOMAIN cfg /\ cfg[k] = obj[k]
    /\ \A k \in DOMAIN default_config \ DOMAIN obj :
          k \in DOMAIN cfg /\ cfg[k] = default_config[k]

C26_ExistingFileUntouched ==
    (cfgRet.called /\ cfgRet.before.kind # "absent") =>
        /\ cfgFile = cfgRet.before
        /\ cfgRet.before.kind # "object" => cfgRet.config = default_config

(***************************************************************************)
(* Claims about the command line (checked under SpecCli)                   *)
(***************************************************************************)
\* C16 as stated: an invocation with no subcommand returns a failure
\* status; an invocation of scrape or summarize returns the success status
\* whatever went wrong during the run (topics file, fetch, render,
\* configuration file values), and is never left by an uncaught exception.
C16_CliExitStatus ==
    cli.status # "idle" =>
        IF cli.command = "none" THEN cli.status = "exit 1"
        ELSE cli.status = "exit 0"

(***************************************************************************)
(* Claims about the scheduler loop (checked under SpecSched)               *)
(***************************************************************************)
\* C15: in the scheduler loop a failure inside a scheduled task (missing
\* topics file, fetch failure, render or re-parse exception) is caught
\* inside that task: no exception leaves a poll, so the loop is never left
\* through its error handler, and at every poll every job that is due is
\* invoked, whatever the jobs before it met.
C15_SchedulerResilience ==
    /\ sched.state # "stopped"
    /\ sched.state \in {"running", "interrupted"} => sched.invoked = sched.due

\* C15 witness: at one poll the scrape task met an exception and the summary
\* task, due at the same poll, was invoked after it, and the loop goes on.
C15_Witness ==
    /\ sched.state = "running"
    /\ sched.invoked = <<"scrape", "summary">>
    /\ sched.excs[1] \in {"ValueError", "FileNotFoundError"}

(***************************************************************************)
(* Claims about the jobs of a poll (checked under SpecJobs)                *)
(***************************************************************************)
\* C25: in the scheduler process the Collect task and the Summarize task
\* are never in progress at the same time: when both are due at one poll,
\* one has ended before the other begins.
C25_TasksNeverOverlap ==
    sched.state = "polling" => Cardinality(sched.active) <= 1

\* C25 witness: both jobs were due at one poll; the scrape job has run, has
\* written a collection artifact and has ended, and the summary job is now
\* in progress.
C25_Witness ==
    /\ sched.state = "polling"
    /\ sched.summary_schedule = sched.scrape_schedule
    /\ sched.active = {"summary"}
    /\ sched.next_scrape > clock
    /\ papersDir # <<>>

(***************************************************************************)
(* Claims about the catalog (checked under SpecCatalog)                    *)
(***************************************************************************)
\* C23 as stated: of any two collection artifacts of the same topic, the
\* catalog selects as latest the one whose timestamp is later in calendar
\* time, and not the other, also across month and year boundaries.
C23_CalendarLatest ==
    last.op = "catalog" =>
        \A t \in CatalogTopics, i \in CatalogClocks, j \in CatalogClocks :
            (/\ i < j
             /\ papers_file_name(t, Clocks[i]) \in DOMAIN papersDir
             /\ papers_file_name(t, Clocks[j]) \in DOMAIN papersDir)
            => /\ papers_file_name(t, Clocks[j]) \in last.selected
               /\ papers_file_name(t, Clocks[i]) \notin last.selected

(***************************************************************************)
(* Claims about markup (checked under SpecMarkup)                          *)
(***************************************************************************)
\* the symbols of the renderer's markup syntax, as they stand unescaped
RawSyms == {"&", "<", ">", "<b>"}

\* the markup the renderer itself puts around a link
LinkWrapper == {"<link href='", "'>", "</link>"}

\* the styles of the paragraphs that hold the text of a record
RecordStyles == {"TitleStyle", "Italic", "LinkStyle", "BodyText"}

\* No symbol of the paragraph's text stands unescaped.
EscapedParagraph(p) ==
    \A i \in 1..Len(p.markup) :
        p.markup[i] \in RawSyms => (p.style = "LinkStyle" /\ p.markup[i] \in LinkWrapper)

EscapedDocument(doc) ==
    \A i \in 1..Len(doc) :
        (doc[i].kind = "para" /\ doc[i].style \in RecordStyles) => EscapedParagraph(doc[i])

\* C21 as stated: in every rendered document, collection artifact or summary
\* artifact, every piece of text that comes from a record (title, authors,
\* link, subjects, abstract, summary text) was escaped for the renderer's
\* markup syntax before it was laid out.
C21_RecordTextEscaped ==
    /\ \A f \in DOMAIN papersDir : EscapedDocument(papersDir[f])
    /\ \A f \in DOMAIN summaryDir : EscapedDocument(summaryDir[f])

====
